---------------------------- MODULE Spec2Model ----------------------------
(***************************************************************************)
(* Model of the Convex backend of the to-do application: the data-access   *)
(* layer (convex/db), the validation helpers, the rate limiter             *)
(* configuration and the endpoint layer (convex/endpoints).                *)
(*                                                                         *)
(* One endpoint call is one step.  A handler is an operator ...Run that     *)
(* follows the handler's statements in order and returns the error it      *)
(* threw (or "ok"), the tables as it had written them at that point, the   *)
(* rate-limit buckets and the bucket it consulted.  Mutation(...) is the   *)
(* `mutation({handler})` wrapper: it commits what the handler wrote when   *)
(* the handler returned and discards it when the handler threw.            *)
(***************************************************************************)
EXTENDS Integers, Sequences, FiniteSets, TLC

VARIABLES db, buckets, now, last, calls, pending

vars == <<db, buckets, now, last, calls, pending>>

-----------------------------------------------------------------------------
(* Bounds of the exploration.                                              *)

\* endpoint calls explored by Spec (every endpoint, few inputs)
MaxCalls == 3
\* endpoint calls explored by SpecTasks (task endpoints, many inputs)
MaxTaskCalls == 3
\* endpoint calls explored by SpecLabels (label endpoints, many inputs)
MaxLabelCalls == 4
\* endpoint calls explored by SpecDrained (every endpoint, few inputs)
MaxDrainedCalls == 2
\* endpoint calls explored by SpecFields (task create/update, many payloads)
MaxFieldCalls == 2
\* tasks.create calls explored by SpecMinute (one user, one minute)
MaxMinuteCalls == 37
\* endpoint calls explored by SpecBoard (tasks and labels behind the dashboard)
MaxBoardCalls == 7
\* preferences.update calls explored by SpecPrefs
MaxPrefCalls == 2
\* endpoint calls explored by SpecLog (one task, many activity records)
MaxLogCalls == 6
\* endpoint calls explored by SpecThreads (threads and messages)
MaxThreadCalls == 5
\* endpoint calls explored by SpecRefs (parent and dependent rows)
MaxRefCalls == 5
\* endpoint calls explored by SpecBurst (one bucket used until it is empty)
MaxBurstCalls == 13
\* tasks created in SpecBurst
MaxBurstTasks == 2
\* endpoint calls explored by SpecRecent (more tasks than dashboard.recent shows)
MaxRecentCalls == 13
\* endpoint calls explored by SpecReads (every read, over a few rows)
MaxReadCalls == 4
\* endpoint calls explored by SpecRace (addToTask in two steps)
MaxRaceCalls == 4
\* last value of the clock (seconds); the clock starts at 1
MaxTime == 2

-----------------------------------------------------------------------------
(* Values.                                                                 *)

Users == {"u1", "u2"}
\* getAuthUser(ctx) returned null
NoUser == "none"
Callers == Users \cup {NoUser}

\* an optional value: undefined is <<>>, a value v is <<v>>
None == <<>>
Some(v) == <<v>>

TASK_STATUSES == {"todo", "in_progress", "completed"}
TASK_PRIORITIES == {"low", "medium", "high"}

Min(a, b) == IF a < b THEN a ELSE b
Max(a, b) == IF a > b THEN a ELSE b

\* Math.max(...xs) of a non-empty set of numbers
MathMax(S) == CHOOSE y \in S : \A z \in S : z <= y

-----------------------------------------------------------------------------
(* Strings are run-length encoded: a sequence of runs [c, n] standing for  *)
(* n >= 1 copies of the character c, neighbouring runs of different        *)
(* characters.  A blank is the character " ".                              *)

Run(c, n) == [c |-> c, n |-> n]
Str(c, n) == <<Run(c, n)>>
EmptyStr == <<>>

RECURSIVE StrLen(_)
StrLen(s) == IF s = <<>> THEN 0 ELSE Head(s).n + StrLen(Tail(s))

RECURSIVE TrimStart(_)
TrimStart(s) == IF s # <<>> /\ Head(s).c = " " THEN TrimStart(Tail(s)) ELSE s

RECURSIVE TrimEnd(_)
TrimEnd(s) == IF s # <<>> /\ s[Len(s)].c = " "
              THEN TrimEnd(SubSeq(s, 1, Len(s) - 1))
              ELSE s

\* String.prototype.trim
Trim(s) == TrimEnd(TrimStart(s))

\* JavaScript truthiness of an optional string: defined and not ""
TruthyStr(o) == o # None /\ o[1] # EmptyStr

MAX_TASK_TITLE_LENGTH == 200
MAX_TASK_DESCRIPTION_LENGTH == 2000
MAX_LABEL_NAME_LENGTH == 50
MAX_COMMENT_LENGTH == 5000
MAX_MESSAGE_LENGTH == 10000
MAX_THREAD_TITLE_LENGTH == 200

sanitizeString(input) == Trim(input)

isValidTaskTitleNonEmpty(title) == StrLen(Trim(title)) > 0

isValidTaskTitle(title) ==
    StrLen(Trim(title)) > 0 /\ StrLen(Trim(title)) <= MAX_TASK_TITLE_LENGTH

\* description is an optional string
isValidTaskDescription(description) ==
    IF ~TruthyStr(description) THEN TRUE
    ELSE StrLen(description[1]) <= MAX_TASK_DESCRIPTION_LENGTH

isValidLabelName(name) ==
    StrLen(Trim(name)) > 0 /\ StrLen(Trim(name)) <= MAX_LABEL_NAME_LENGTH

isValidMessageContent(content) ==
    StrLen(Trim(content)) > 0 /\ StrLen(Trim(content)) <= MAX_MESSAGE_LENGTH

isValidCommentContent(content) ==
    StrLen(Trim(content)) > 0 /\ StrLen(Trim(content)) <= MAX_COMMENT_LENGTH

\* title is an optional string
isValidThreadTitle(title) ==
    IF ~TruthyStr(title) THEN TRUE
    ELSE StrLen(Trim(title[1])) > 0
         /\ StrLen(Trim(title[1])) <= MAX_THREAD_TITLE_LENGTH

\* A colour is the pair of what follows a leading "#": whether it is made of
\* hexadecimal digits only, and how many characters it has.
Color(hash, hex, n) == [hash |-> hash, hex |-> hex, n |-> n]

isValidHexColor(color) ==
    color.hash /\ color.hex /\ (color.n = 6 \/ color.n = 3)

-----------------------------------------------------------------------------
(* The document store.  A table is a set of rows; _id is a number that the *)
(* table hands out once and never again, so a larger _id is a later        *)
(* insert.  d is the record of all tables as one handler sees it.          *)

TableNames == {"tasks", "labels", "taskLabels", "threads", "messages",
               "userPreferences", "taskActivity", "taskComments"}

EmptyDb ==
    [tasks |-> {}, labels |-> {}, taskLabels |-> {}, threads |-> {},
     messages |-> {}, userPreferences |-> {}, taskActivity |-> {},
     taskComments |-> {}, nextId |-> [t \in TableNames |-> 1]]

\* ctx.db.insert(table, row): the row gets the table's next _id
Insert(d, table, row) ==
    [d EXCEPT ![table] = @ \cup {row},
              !.nextId[table] = @ + 1]

\* the rows of a set in ascending / descending order of _id
RECURSIVE Asc(_)
Asc(S) == IF S = {} THEN <<>>
          ELSE LET r == CHOOSE x \in S : \A y \in S : x._id <= y._id
               IN <<r>> \o Asc(S \ {r})

RECURSIVE Desc(_)
Desc(S) == IF S = {} THEN <<>>
           ELSE LET r == CHOOSE x \in S : \A y \in S : x._id >= y._id
                IN <<r>> \o Desc(S \ {r})

\* the first n elements of a sequence (.take(n), .slice(0, n))
Take(s, n) == SubSeq(s, 1, Min(n, Len(s)))

Range(s) == {s[i] : i \in 1..Len(s)}

\* ctx.db.get(id): the set of rows with that _id, empty for null
Get(d, table, id) == {r \in d[table] : r._id = id}

TheRow(S) == CHOOSE r \in S : TRUE

\* ctx.db.delete(id) of rows that exist
Delete(d, table, ids) ==
    [d EXCEPT ![table] = {r \in @ : r._id \notin ids}]

-----------------------------------------------------------------------------
(* db/tasks.ts *)

createTask(d, args, t) ==
    Insert(d, "tasks",
           [_id |-> d.nextId["tasks"], userId |-> args.userId,
            title |-> args.title, description |-> args.description,
            status |-> args.status, priority |-> args.priority,
            dueDate |-> args.dueDate, order |-> args.order,
            completedAt |-> None, createdAt |-> t, updatedAt |-> t])

getTaskById(d, id) == Get(d, "tasks", id)

getTasksByUserAll(d, userId) == Desc(d.tasks)

getTasksByUser(d, userId) == Desc({r \in d.tasks : r.userId = userId})

getTasksByUserAndStatus(d, userId, status) ==
    Asc({r \in d.tasks : r.userId = userId /\ r.status = status})

\* index by_user_status_order: by order, then by creation
RECURSIVE ByOrder(_)
ByOrder(S) ==
    IF S = {} THEN <<>>
    ELSE LET r == CHOOSE x \in S : \A y \in S :
                      \/ x.order < y.order
                      \/ (x.order = y.order /\ x._id <= y._id)
         IN <<r>> \o ByOrder(S \ {r})

getTasksByUserStatusOrdered(d, userId, status) ==
    ByOrder({r \in d.tasks : r.userId = userId /\ r.status = status})

\* The fields of a patch: None for a key the patch does not have, Some(v)
\* for a key with the new stored value v (v is None where the patch sets an
\* optional field to undefined, which removes it).
NoPatch ==
    [title |-> None, description |-> None, status |-> None,
     priority |-> None, dueDate |-> None, order |-> None,
     completedAt |-> None]

Patched(old, p) == IF p = None THEN old ELSE p[1]

updateTask(d, id, args, t) ==
    [d EXCEPT !.tasks =
        {IF r._id # id THEN r
         ELSE [r EXCEPT !.title = Patched(@, args.title),
                        !.description = Patched(@, args.description),
                        !.status = Patched(@, args.status),
                        !.priority = Patched(@, args.priority),
                        !.dueDate = Patched(@, args.dueDate),
                        !.order = Patched(@, args.order),
                        !.completedAt = Patched(@, args.completedAt),
                        !.updatedAt = t] : r \in @}]

deleteTask(d, id) == Delete(d, "tasks", {id})

getMaxOrderByCount(d, userId, status) ==
    Cardinality({r \in d.tasks : r.userId = userId /\ r.status = status})

getMaxOrderForStatus(d, userId, status) ==
    LET tasks == {r \in d.tasks : r.userId = userId /\ r.status = status}
    IN IF tasks = {} THEN 0 ELSE MathMax({r.order : r \in tasks})

countTasksOfAllUsers(d, userId, status) ==
    Cardinality({r \in d.tasks : r.status = status})

countTasksByStatus(d, userId, status) ==
    Len(getTasksByUserAndStatus(d, userId, status))

-----------------------------------------------------------------------------
(* db/taskLabels.ts *)

createTaskLabel(d, args, t) ==
    Insert(d, "taskLabels",
           [_id |-> d.nextId["taskLabels"], taskId |-> args.taskId,
            labelId |-> args.labelId, userId |-> args.userId,
            createdAt |-> t])

getLabelsForTask(d, taskId) == Asc({r \in d.taskLabels : r.taskId = taskId})

getTasksForLabel(d, labelId) == Asc({r \in d.taskLabels : r.labelId = labelId})

taskLabelExistsNever(d, taskId, labelId) == FALSE

taskLabelExists(d, taskId, labelId) ==
    \E tl \in Range(getLabelsForTask(d, taskId)) : tl.labelId = labelId

\* deletes the first row of the task with that label, if there is one
deleteTaskLabel(d, taskId, labelId) ==
    LET taskLabel == getLabelsForTask(d, taskId)
        hits == {i \in 1..Len(taskLabel) : taskLabel[i].labelId = labelId}
    IN IF hits = {} THEN d
       ELSE Delete(d, "taskLabels",
                   {taskLabel[CHOOSE i \in hits : \A j \in hits : i <= j]._id})

deleteAllLabelsFromTask(d, taskId) ==
    Delete(d, "taskLabels", {r._id : r \in {x \in d.taskLabels : x.taskId = taskId}})

deleteAllTasksFromLabelNone(d, labelId) == d

deleteAllTasksFromLabel(d, labelId) ==
    Delete(d, "taskLabels", {r._id : r \in {x \in d.taskLabels : x.labelId = labelId}})

-----------------------------------------------------------------------------
(* db/taskActivity.ts *)

createTaskActivity(d, args, t) ==
    Insert(d, "taskActivity",
           [_id |-> d.nextId["taskActivity"], userId |-> args.userId,
            taskId |-> args.taskId, action |-> args.action,
            oldValue |-> args.oldValue, newValue |-> args.newValue,
            createdAt |-> t])

getActivityByTask(d, taskId) ==
    Desc({r \in d.taskActivity : r.taskId = taskId})

deleteAllActivityForTask(d, taskId) ==
    Delete(d, "taskActivity",
           {r._id : r \in {x \in d.taskActivity : x.taskId = taskId}})

getActivityByUser(d, userId) ==
    Desc({r \in d.taskActivity : r.userId = userId})

DEFAULT_ACTIVITY_LIMIT == 20

\* index by_user_and_created, descending: by createdAt, then by creation
RECURSIVE ByCreatedDesc(_)
ByCreatedDesc(S) ==
    IF S = {} THEN <<>>
    ELSE LET r == CHOOSE x \in S : \A y \in S :
                      \/ x.createdAt > y.createdAt
                      \/ (x.createdAt = y.createdAt /\ x._id >= y._id)
         IN <<r>> \o ByCreatedDesc(S \ {r})

getRecentActivityByUser(d, userId, limit) ==
    Take(ByCreatedDesc({r \in d.taskActivity : r.userId = userId}), limit)

-----------------------------------------------------------------------------
(* db/taskComments.ts *)

createTaskComment(d, args, t) ==
    Insert(d, "taskComments",
           [_id |-> d.nextId["taskComments"], taskId |-> args.taskId,
            userId |-> args.userId, content |-> args.content,
            type |-> args.type, createdAt |-> t])

getCommentsByTask(d, taskId) ==
    Asc({r \in d.taskComments : r.taskId = taskId})

deleteTaskComment(d, id) == Delete(d, "taskComments", {id})

deleteAllCommentsFromTask(d, taskId) ==
    Delete(d, "taskComments",
           {r._id : r \in {x \in d.taskComments : x.taskId = taskId}})

-----------------------------------------------------------------------------
(* db/labels.ts *)

createLabel(d, args, t) ==
    Insert(d, "labels",
           [_id |-> d.nextId["labels"], userId |-> args.userId,
            name |-> args.name, color |-> args.color, createdAt |-> t])

getLabelById(d, id) == Get(d, "labels", id)

getLabelsByUser(d, userId) == Desc({r \in d.labels : r.userId = userId})

getLabelByUserAndNameNone(d, userId, name) == {}

\* .first() of the user's labels with that name: a set, empty for null
getLabelByUserAndName(d, userId, name) ==
    LET hits == {r \in d.labels : r.userId = userId /\ r.name = name}
    IN IF hits = {} THEN {}
       ELSE {CHOOSE x \in hits : \A y \in hits : x._id <= y._id}

\* args: name and color, each None when the patch does not have the key
updateLabel(d, id, args) ==
    [d EXCEPT !.labels =
        {IF r._id # id THEN r
         ELSE [r EXCEPT !.name = Patched(@, args.name),
                        !.color = Patched(@, args.color)] : r \in @}]

deleteLabel(d, id) == Delete(d, "labels", {id})

-----------------------------------------------------------------------------
(* db/threads.ts *)

createThread(d, args, t) ==
    Insert(d, "threads",
           [_id |-> d.nextId["threads"], userId |-> args.userId,
            title |-> args.title, status |-> args.status,
            createdAt |-> t, updatedAt |-> t])

getThreadById(d, id) == Get(d, "threads", id)

getThreadsByUser(d, userId) == Desc({r \in d.threads : r.userId = userId})

getThreadsByUserAndStatus(d, userId, status) ==
    Desc({r \in d.threads : r.userId = userId /\ r.status = status})

\* args: title and status, each None when the patch does not have the key
updateThread(d, id, args, t) ==
    [d EXCEPT !.threads =
        {IF r._id # id THEN r
         ELSE [r EXCEPT !.title = Patched(@, args.title),
                        !.status = Patched(@, args.status),
                        !.updatedAt = t] : r \in @}]

deleteThread(d, id) == Delete(d, "threads", {id})

-----------------------------------------------------------------------------
(* db/messages.ts *)

createMessage(d, args, t) ==
    Insert(d, "messages",
           [_id |-> d.nextId["messages"], threadId |-> args.threadId,
            userId |-> args.userId, role |-> args.role,
            content |-> args.content, createdAt |-> t])

getMessagesByThread(d, threadId) ==
    Asc({r \in d.messages : r.threadId = threadId})

deleteAllMessagesInThread(d, threadId) ==
    Delete(d, "messages",
           {r._id : r \in {x \in d.messages : x.threadId = threadId}})

-----------------------------------------------------------------------------
(* db/userPreferences.ts *)

PrefFields == {"theme", "defaultView", "sortBy", "sortOrder",
               "showCompleted", "enableAI"}

createUserPreferences(d, args, t) ==
    Insert(d, "userPreferences",
           [_id |-> d.nextId["userPreferences"], userId |-> args.userId,
            theme |-> args.theme, defaultView |-> args.defaultView,
            sortBy |-> args.sortBy, sortOrder |-> args.sortOrder,
            showCompleted |-> args.showCompleted, enableAI |-> args.enableAI,
            createdAt |-> t, updatedAt |-> t])

\* .first() of the user's rows: a set, empty for null
getUserPreferencesByUser(d, userId) ==
    LET hits == {r \in d.userPreferences : r.userId = userId}
    IN IF hits = {} THEN {}
       ELSE {CHOOSE x \in hits : \A y \in hits : x._id <= y._id}

Overwritten(default, p) == IF p = None THEN default ELSE p[1]

updateUserPreferencesFromDefaults(d, id, args, t) ==
    [d EXCEPT !.userPreferences =
        {IF r._id # id THEN r
         ELSE [r EXCEPT !.theme = Overwritten("system", args.theme),
                        !.defaultView = Overwritten("list", args.defaultView),
                        !.sortBy = Overwritten("created", args.sortBy),
                        !.sortOrder = Overwritten("desc", args.sortOrder),
                        !.showCompleted = Overwritten(TRUE, args.showCompleted),
                        !.enableAI = Overwritten(TRUE, args.enableAI),
                        !.updatedAt = t] : r \in @}]

\* args: one optional value per preference field
updateUserPreferences(d, id, args, t) ==
    [d EXCEPT !.userPreferences =
        {IF r._id # id THEN r
         ELSE [r EXCEPT !.theme = Patched(@, args.theme),
                        !.defaultView = Patched(@, args.defaultView),
                        !.sortBy = Patched(@, args.sortBy),
                        !.sortOrder = Patched(@, args.sortOrder),
                        !.showCompleted = Patched(@, args.showCompleted),
                        !.enableAI = Patched(@, args.enableAI),
                        !.updatedAt = t] : r \in @}]

DefaultPreferences ==
    [theme |-> "system", defaultView |-> "list", sortBy |-> "created",
     sortOrder |-> "desc", showCompleted |-> TRUE, enableAI |-> TRUE]

getOrCreateUserPreferencesLost(d, userId, t) ==
    LET existing == getUserPreferencesByUser(d, userId)
    IN IF existing # {} THEN [prefs |-> existing, db |-> d]
       ELSE [prefs |-> {},
             db |-> createUserPreferences(
                        d, [userId |-> userId] @@ DefaultPreferences, t)]

getOrCreateUserPreferencesAlways(d, userId, t) ==
    LET id == d.nextId["userPreferences"]
        d1 == createUserPreferences(
                  d, [userId |-> userId] @@ DefaultPreferences, t)
    IN [prefs |-> Get(d1, "userPreferences", id), db |-> d1]

\* returns the row (a set) and the tables after a possible insert
getOrCreateUserPreferences(d, userId, t) ==
    LET existing == getUserPreferencesByUser(d, userId)
    IN IF existing # {} THEN [prefs |-> existing, db |-> d]
       ELSE LET id == d.nextId["userPreferences"]
                d1 == createUserPreferences(
                          d, [userId |-> userId] @@ DefaultPreferences, t)
            IN [prefs |-> Get(d1, "userPreferences", id), db |-> d1]

-----------------------------------------------------------------------------
(* rateLimiter.ts: one token bucket per (name, key).  Time is in seconds;  *)
(* a bucket holds its tokens in units of 1/SCALE token so that every       *)
(* refill is a whole number.                                               *)

MINUTE == 60
HOUR == 3600
SCALE == 3600

Bucket(rate, period, capacity) ==
    [rate |-> rate, period |-> period, capacity |-> capacity]

RateLimits ==
    [createTask |-> Bucket(30, MINUTE, 5),
     updateTask |-> Bucket(60, MINUTE, 10),
     deleteTask |-> Bucket(30, MINUTE, 5),
     createLabel |-> Bucket(20, MINUTE, 3),
     updateLabel |-> Bucket(30, MINUTE, 5),
     deleteLabel |-> Bucket(20, MINUTE, 3),
     addLabelToTask |-> Bucket(50, MINUTE, 10),
     removeLabelFromTask |-> Bucket(50, MINUTE, 10),
     createComment |-> Bucket(30, MINUTE, 5),
     deleteComment |-> Bucket(30, MINUTE, 5),
     updatePreferences |-> Bucket(20, MINUTE, 5),
     createThread |-> Bucket(10, HOUR, 2),
     sendMessage |-> Bucket(30, HOUR, 5),
     deleteThread |-> Bucket(20, MINUTE, 3)]

BucketNames == DOMAIN RateLimits

\* no rateLimiter.limit call
NoBucket == "none"

\* every bucket starts full
FullBuckets ==
    [n \in BucketNames |->
        [u \in Users |-> [value |-> RateLimits[n].capacity * SCALE, ts |-> 1]]]

\* the tokens (in 1/SCALE) of a bucket at time t
Tokens(b, name, key, t) ==
    LET cfg == RateLimits[name]
        st == b[name][key]
    IN Min(cfg.capacity * SCALE,
           st.value + ((t - st.ts) * cfg.rate * SCALE) \div cfg.period)

LimitKeepsToken(b, name, key, t) ==
    [ok |-> Tokens(b, name, key, t) >= SCALE, b |-> b]

LimitSharedByUsers(b, name, key, t) ==
    LET v == Tokens(b, name, key, t)
    IN IF v >= SCALE
       THEN [ok |-> TRUE,
             b |-> [b EXCEPT ![name] =
                      [u \in Users |-> [value |-> v - SCALE, ts |-> t]]]]
       ELSE [ok |-> FALSE, b |-> b]

\* rateLimiter.limit(ctx, name, {key}): takes one token if there is one
Limit(b, name, key, t) ==
    LET v == Tokens(b, name, key, t)
    IN IF v >= SCALE
       THEN [ok |-> TRUE,
             b |-> [b EXCEPT ![name][key] = [value |-> v - SCALE, ts |-> t]]]
       ELSE [ok |-> FALSE, b |-> b]

-----------------------------------------------------------------------------
(* What a handler hands back: res is "ok" or the error thrown, db and b    *)
(* the tables and buckets as the handler left them, limited the bucket it  *)
(* consulted, ret the value returned.                                      *)

Errors == {"Unauthenticated", "RateLimited", "NotFound", "Forbidden",
           "InvalidArgument", "StoreError"}

Thrown(err, d, b, limited) ==
    [res |-> err, db |-> d, b |-> b, limited |-> limited, ret |-> 0]

\* the tables after the last write of a handler
Final(writes) == writes[Len(writes)]

Returned(d, b, limited, ret) ==
    [res |-> "ok", db |-> d, b |-> b, limited |-> limited, ret |-> ret]

-----------------------------------------------------------------------------
(* endpoints/tasks.ts *)

\* tasks.get
TasksGet(caller, id) ==
    IF caller = NoUser THEN [res |-> "Unauthenticated", value |-> {}]
    ELSE LET task == getTaskById(db, id)
         IN IF task = {} THEN [res |-> "NotFound", value |-> {}]
            ELSE IF TheRow(task).userId # caller
                 THEN [res |-> "Forbidden", value |-> {}]
                 ELSE [res |-> "ok", value |-> task]

\* tasks.list
TasksList(caller) ==
    IF caller = NoUser THEN [res |-> "Unauthenticated", value |-> <<>>]
    ELSE [res |-> "ok", value |-> getTasksByUser(db, caller)]

\* tasks.listByStatus
TasksListByStatus(caller, status) ==
    IF caller = NoUser THEN [res |-> "Unauthenticated", value |-> <<>>]
    ELSE [res |-> "ok",
          value |-> getTasksByUserStatusOrdered(db, caller, status)]


\* tasks.create, after its checks: the tables after each of its writes
TasksCreateWrites(caller, a, title) ==
    LET maxOrder == getMaxOrderForStatus(db, caller, "todo")
        taskId == db.nextId["tasks"]
        d1 == createTask(db,
                 [userId |-> caller, title |-> title,
                  description |-> a.description, status |-> "todo",
                  priority |-> a.priority, dueDate |-> a.dueDate,
                  order |-> maxOrder + 1], now)
        d2 == createTaskActivity(d1,
                 [userId |-> caller, taskId |-> taskId,
                  action |-> "created", oldValue |-> None,
                  newValue |-> Some([title |-> title,
                                     priority |-> a.priority])], now)
    IN <<d1, d2>>

\* tasks.create; a: title, description (optional), priority, dueDate (optional)
TasksCreateRun(caller, a) ==
    IF caller = NoUser THEN Thrown("Unauthenticated", db, buckets, NoBucket)
    ELSE LET lim == Limit(buckets, "createTask", caller, now) IN
    IF ~lim.ok THEN Thrown("RateLimited", db, lim.b, "createTask")
    ELSE LET title == sanitizeString(a.title) IN
    IF ~isValidTaskTitle(title)
    THEN Thrown("InvalidArgument", db, lim.b, "createTask")
    ELSE IF TruthyStr(a.description) /\ ~isValidTaskDescription(a.description)
    THEN Thrown("InvalidArgument", db, lim.b, "createTask")
    ELSE Returned(Final(TasksCreateWrites(caller, a, title)),
                  lim.b, "createTask", db.nextId["tasks"])

CompletedAtAlways(status, t) == Some(t)

\* the completedAt an update writes when the status changes to `status`
CompletedAtFor(status, t) == IF status = "completed" THEN Some(t) ELSE None

LogsGeneralUpdateAlways(a) == TRUE

\* whether an update appends the general "updated" record
LogsGeneralUpdate(a) == a.status = None /\ a.priority = None

\* tasks.update, after its checks: the tables after each of its writes, in
\* the order of the code (a write that is skipped leaves them as they were)
TasksUpdateWrites(caller, a, task) ==
    LET statusChanges == a.status # None /\ a.status[1] # task.status
        priorityChanges == a.priority # None /\ a.priority[1] # task.priority
        updateData ==
            [title |-> IF TruthyStr(a.title)
                       THEN Some(sanitizeString(a.title[1])) ELSE None,
             description |-> IF a.description # None
                             THEN Some(a.description) ELSE None,
             priority |-> IF a.priority # None
                          THEN Some(a.priority[1]) ELSE None,
             dueDate |-> IF a.dueDate # None THEN Some(a.dueDate) ELSE None,
             status |-> IF statusChanges THEN Some(a.status[1]) ELSE None,
             completedAt |-> IF statusChanges
                             THEN Some(CompletedAtFor(a.status[1], now))
                             ELSE None,
             order |-> None]
        d1 == IF statusChanges
              THEN createTaskActivity(db,
                      [userId |-> caller, taskId |-> a.id,
                       action |-> "status_changed",
                       oldValue |-> Some(task.status),
                       newValue |-> Some(a.status[1])], now)
              ELSE db
        d2 == IF priorityChanges
              THEN createTaskActivity(d1,
                      [userId |-> caller, taskId |-> a.id,
                       action |-> "priority_changed",
                       oldValue |-> Some(task.priority),
                       newValue |-> Some(a.priority[1])], now)
              ELSE d1
        d3 == updateTask(d2, a.id, updateData, now)
        d4 == IF LogsGeneralUpdate(a)
              THEN createTaskActivity(d3,
                      [userId |-> caller, taskId |-> a.id,
                       action |-> "updated", oldValue |-> None,
                       newValue |-> None], now)
              ELSE d3
    IN <<d1, d2, d3, d4>>

TasksUpdateApply(caller, a, task, b) ==
    Returned(Final(TasksUpdateWrites(caller, a, task)), b, "updateTask", a.id)

TasksUpdateRunValidateFirst(caller, a) ==
    IF caller = NoUser THEN Thrown("Unauthenticated", db, buckets, NoBucket)
    ELSE LET lim == Limit(buckets, "updateTask", caller, now) IN
    IF ~lim.ok THEN Thrown("RateLimited", db, lim.b, "updateTask")
    ELSE IF TruthyStr(a.title) /\ ~isValidTaskTitle(sanitizeString(a.title[1]))
    THEN Thrown("InvalidArgument", db, lim.b, "updateTask")
    ELSE IF TruthyStr(a.description) /\ ~isValidTaskDescription(a.description)
    THEN Thrown("InvalidArgument", db, lim.b, "updateTask")
    ELSE LET found == getTaskById(db, a.id) IN
    IF found = {} THEN Thrown("NotFound", db, lim.b, "updateTask")
    ELSE LET task == TheRow(found) IN
    IF task.userId # caller THEN Thrown("Forbidden", db, lim.b, "updateTask")
    ELSE TasksUpdateApply(caller, a, task, lim.b)

\* tasks.update; a: id and optional title, description, status, priority, dueDate
TasksUpdateRun(caller, a) ==
    IF caller = NoUser THEN Thrown("Unauthenticated", db, buckets, NoBucket)
    ELSE LET lim == Limit(buckets, "updateTask", caller, now) IN
    IF ~lim.ok THEN Thrown("RateLimited", db, lim.b, "updateTask")
    ELSE LET found == getTaskById(db, a.id) IN
    IF found = {} THEN Thrown("NotFound", db, lim.b, "updateTask")
    ELSE LET task == TheRow(found) IN
    IF task.userId # caller THEN Thrown("Forbidden", db, lim.b, "updateTask")
    ELSE IF TruthyStr(a.title) /\ ~isValidTaskTitle(sanitizeString(a.title[1]))
    THEN Thrown("InvalidArgument", db, lim.b, "updateTask")
    ELSE IF TruthyStr(a.description) /\ ~isValidTaskDescription(a.description)
    THEN Thrown("InvalidArgument", db, lim.b, "updateTask")
    ELSE TasksUpdateApply(caller, a, task, lim.b)

TasksReorderRunRenumbering(caller, a) ==
    IF caller = NoUser THEN Thrown("Unauthenticated", db, buckets, NoBucket)
    ELSE LET lim == Limit(buckets, "updateTask", caller, now) IN
    IF ~lim.ok THEN Thrown("RateLimited", db, lim.b, "updateTask")
    ELSE LET found == getTaskById(db, a.id) IN
    IF found = {} THEN Thrown("NotFound", db, lim.b, "updateTask")
    ELSE IF TheRow(found).userId # caller
    THEN Thrown("Forbidden", db, lim.b, "updateTask")
    ELSE LET d1 == [db EXCEPT !.tasks =
                      {IF r._id # a.id /\ r.userId = caller
                          /\ r.status = TheRow(found).status
                          /\ r.order >= a.newOrder
                       THEN [r EXCEPT !.order = @ + 1] ELSE r : r \in @}]
         IN Returned(updateTask(d1, a.id,
                                [NoPatch EXCEPT !.order = Some(a.newOrder)],
                                now),
                     lim.b, "updateTask", a.id)

\* tasks.reorder; a: id, newOrder
TasksReorderRun(caller, a) ==
    IF caller = NoUser THEN Thrown("Unauthenticated", db, buckets, NoBucket)
    ELSE LET lim == Limit(buckets, "updateTask", caller, now) IN
    IF ~lim.ok THEN Thrown("RateLimited", db, lim.b, "updateTask")
    ELSE LET found == getTaskById(db, a.id) IN
    IF found = {} THEN Thrown("NotFound", db, lim.b, "updateTask")
    ELSE IF TheRow(found).userId # caller
    THEN Thrown("Forbidden", db, lim.b, "updateTask")
    ELSE Returned(updateTask(db, a.id,
                             [NoPatch EXCEPT !.order = Some(a.newOrder)], now),
                  lim.b, "updateTask", a.id)

TasksRemoveWritesDeleteFirst(caller, a, task) ==
    LET d1 == deleteAllLabelsFromTask(db, a.id)
        d2 == deleteAllCommentsFromTask(d1, a.id)
        d3 == deleteTask(d2, a.id)
        d4 == createTaskActivity(d3,
                 [userId |-> caller, taskId |-> a.id, action |-> "deleted",
                  oldValue |-> Some([title |-> task.title]),
                  newValue |-> None], now)
    IN <<d1, d2, d3, d4>>

TasksRemoveWritesPurgingLog(caller, a, task) ==
    LET d1 == createTaskActivity(db,
                 [userId |-> caller, taskId |-> a.id, action |-> "deleted",
                  oldValue |-> Some([title |-> task.title]),
                  newValue |-> None], now)
        d2 == deleteAllLabelsFromTask(d1, a.id)
        d3 == deleteAllCommentsFromTask(d2, a.id)
        d4 == deleteTask(deleteAllActivityForTask(d3, a.id), a.id)
    IN <<d1, d2, d3, d4>>

\* tasks.remove, after its checks: the tables after each of its writes
TasksRemoveWrites(caller, a, task) ==
    LET d1 == createTaskActivity(db,
                 [userId |-> caller, taskId |-> a.id, action |-> "deleted",
                  oldValue |-> Some([title |-> task.title]),
                  newValue |-> None], now)
        d2 == deleteAllLabelsFromTask(d1, a.id)
        d3 == deleteAllCommentsFromTask(d2, a.id)
        d4 == deleteTask(d3, a.id)
    IN <<d1, d2, d3, d4>>

\* tasks.remove; a: id
TasksRemoveRun(caller, a) ==
    IF caller = NoUser THEN Thrown("Unauthenticated", db, buckets, NoBucket)
    ELSE LET lim == Limit(buckets, "deleteTask", caller, now) IN
    IF ~lim.ok THEN Thrown("RateLimited", db, lim.b, "deleteTask")
    ELSE LET found == getTaskById(db, a.id) IN
    IF found = {} THEN Thrown("NotFound", db, lim.b, "deleteTask")
    ELSE IF TheRow(found).userId # caller
    THEN Thrown("Forbidden", db, lim.b, "deleteTask")
    ELSE Returned(Final(TasksRemoveWrites(caller, a, TheRow(found))),
                  lim.b, "deleteTask", a.id)

-----------------------------------------------------------------------------
(* endpoints/labels.ts *)

\* labels.create; a: name, color
LabelsCreateRun(caller, a) ==
    IF caller = NoUser THEN Thrown("Unauthenticated", db, buckets, NoBucket)
    ELSE LET lim == Limit(buckets, "createLabel", caller, now) IN
    IF ~lim.ok THEN Thrown("RateLimited", db, lim.b, "createLabel")
    ELSE LET name == sanitizeString(a.name) IN
    IF ~isValidLabelName(name)
    THEN Thrown("InvalidArgument", db, lim.b, "createLabel")
    ELSE IF ~isValidHexColor(a.color)
    THEN Thrown("InvalidArgument", db, lim.b, "createLabel")
    ELSE IF getLabelByUserAndName(db, caller, name) # {}
    THEN Thrown("InvalidArgument", db, lim.b, "createLabel")
    ELSE Returned(createLabel(db, [userId |-> caller, name |-> name,
                                   color |-> a.color], now),
                  lim.b, "createLabel", db.nextId["labels"])

\* labels.update; a: id and optional name, color
LabelsUpdateRun(caller, a) ==
    IF caller = NoUser THEN Thrown("Unauthenticated", db, buckets, NoBucket)
    ELSE LET lim == Limit(buckets, "updateLabel", caller, now) IN
    IF ~lim.ok THEN Thrown("RateLimited", db, lim.b, "updateLabel")
    ELSE LET found == getLabelById(db, a.id) IN
    IF found = {} THEN Thrown("NotFound", db, lim.b, "updateLabel")
    ELSE LET label == TheRow(found) IN
    IF label.userId # caller THEN Thrown("Forbidden", db, lim.b, "updateLabel")
    ELSE IF TruthyStr(a.name) /\ ~isValidLabelName(sanitizeString(a.name[1]))
    THEN Thrown("InvalidArgument", db, lim.b, "updateLabel")
    ELSE IF /\ TruthyStr(a.name)
            /\ sanitizeString(a.name[1]) # label.name
            /\ getLabelByUserAndName(db, caller, sanitizeString(a.name[1])) # {}
    THEN Thrown("InvalidArgument", db, lim.b, "updateLabel")
    ELSE IF a.color # None /\ ~isValidHexColor(a.color[1])
    THEN Thrown("InvalidArgument", db, lim.b, "updateLabel")
    ELSE LET updateData ==
                 [name |-> IF TruthyStr(a.name)
                           THEN Some(sanitizeString(a.name[1])) ELSE None,
                  color |-> IF a.color # None THEN Some(a.color[1]) ELSE None]
         IN Returned(updateLabel(db, a.id, updateData),
                     lim.b, "updateLabel", a.id)

\* labels.remove; a: id
LabelsRemoveRun(caller, a) ==
    IF caller = NoUser THEN Thrown("Unauthenticated", db, buckets, NoBucket)
    ELSE LET lim == Limit(buckets, "deleteLabel", caller, now) IN
    IF ~lim.ok THEN Thrown("RateLimited", db, lim.b, "deleteLabel")
    ELSE LET found == getLabelById(db, a.id) IN
    IF found = {} THEN Thrown("NotFound", db, lim.b, "deleteLabel")
    ELSE IF TheRow(found).userId # caller
    THEN Thrown("Forbidden", db, lim.b, "deleteLabel")
    ELSE Returned(deleteLabel(deleteAllTasksFromLabel(db, a.id), a.id),
                  lim.b, "deleteLabel", a.id)

LabelsAddToTaskRunAnyLabel(caller, a) ==
    IF caller = NoUser THEN Thrown("Unauthenticated", db, buckets, NoBucket)
    ELSE LET lim == Limit(buckets, "addLabelToTask", caller, now) IN
    IF ~lim.ok THEN Thrown("RateLimited", db, lim.b, "addLabelToTask")
    ELSE LET task == getTaskById(db, a.taskId) IN
    IF task = {} THEN Thrown("NotFound", db, lim.b, "addLabelToTask")
    ELSE IF TheRow(task).userId # caller
    THEN Thrown("Forbidden", db, lim.b, "addLabelToTask")
    ELSE LET label == getLabelById(db, a.labelId) IN
    IF label = {} THEN Thrown("NotFound", db, lim.b, "addLabelToTask")
    ELSE IF taskLabelExists(db, a.taskId, a.labelId)
    THEN Thrown("InvalidArgument", db, lim.b, "addLabelToTask")
    ELSE Returned(createTaskLabel(db, [taskId |-> a.taskId,
                                       labelId |-> a.labelId,
                                       userId |-> caller], now),
                  lim.b, "addLabelToTask", db.nextId["taskLabels"])

\* labels.addToTask; a: taskId, labelId
LabelsAddToTaskRun(caller, a) ==
    IF caller = NoUser THEN Thrown("Unauthenticated", db, buckets, NoBucket)
    ELSE LET lim == Limit(buckets, "addLabelToTask", caller, now) IN
    IF ~lim.ok THEN Thrown("RateLimited", db, lim.b, "addLabelToTask")
    ELSE LET task == getTaskById(db, a.taskId) IN
    IF task = {} THEN Thrown("NotFound", db, lim.b, "addLabelToTask")
    ELSE IF TheRow(task).userId # caller
    THEN Thrown("Forbidden", db, lim.b, "addLabelToTask")
    ELSE LET label == getLabelById(db, a.labelId) IN
    IF label = {} THEN Thrown("NotFound", db, lim.b, "addLabelToTask")
    ELSE IF TheRow(label).userId # caller
    THEN Thrown("Forbidden", db, lim.b, "addLabelToTask")
    ELSE IF taskLabelExists(db, a.taskId, a.labelId)
    THEN Thrown("InvalidArgument", db, lim.b, "addLabelToTask")
    ELSE Returned(createTaskLabel(db, [taskId |-> a.taskId,
                                       labelId |-> a.labelId,
                                       userId |-> caller], now),
                  lim.b, "addLabelToTask", db.nextId["taskLabels"])

\* labels.removeFromTask; a: taskId, labelId
LabelsRemoveFromTaskRun(caller, a) ==
    IF caller = NoUser THEN Thrown("Unauthenticated", db, buckets, NoBucket)
    ELSE LET lim == Limit(buckets, "removeLabelFromTask", caller, now) IN
    IF ~lim.ok THEN Thrown("RateLimited", db, lim.b, "removeLabelFromTask")
    ELSE LET task == getTaskById(db, a.taskId) IN
    IF task = {} THEN Thrown("NotFound", db, lim.b, "removeLabelFromTask")
    ELSE IF TheRow(task).userId # caller
    THEN Thrown("Forbidden", db, lim.b, "removeLabelFromTask")
    ELSE Returned(deleteTaskLabel(db, a.taskId, a.labelId),
                  lim.b, "removeLabelFromTask", a.taskId)

-----------------------------------------------------------------------------
(* endpoints/comments.ts *)

\* comments.create; a: taskId, content, type (optional)
CommentsCreateRun(caller, a) ==
    IF caller = NoUser THEN Thrown("Unauthenticated", db, buckets, NoBucket)
    ELSE LET lim == Limit(buckets, "createComment", caller, now) IN
    IF ~lim.ok THEN Thrown("RateLimited", db, lim.b, "createComment")
    ELSE LET task == getTaskById(db, a.taskId) IN
    IF task = {} THEN Thrown("NotFound", db, lim.b, "createComment")
    ELSE IF TheRow(task).userId # caller
    THEN Thrown("Forbidden", db, lim.b, "createComment")
    ELSE LET content == sanitizeString(a.content) IN
    IF ~isValidCommentContent(content)
    THEN Thrown("InvalidArgument", db, lim.b, "createComment")
    ELSE Returned(createTaskComment(db,
                      [taskId |-> a.taskId, userId |-> caller,
                       content |-> content,
                       type |-> IF a.type # None THEN a.type[1]
                                ELSE "user_note"], now),
                  lim.b, "createComment", db.nextId["taskComments"])

\* comments.remove; a: id.  The handler deletes the row without reading it;
\* ctx.db.delete throws for an id that has no document.
CommentsRemoveRun(caller, a) ==
    IF caller = NoUser THEN Thrown("Unauthenticated", db, buckets, NoBucket)
    ELSE LET lim == Limit(buckets, "deleteComment", caller, now) IN
    IF ~lim.ok THEN Thrown("RateLimited", db, lim.b, "deleteComment")
    ELSE IF Get(db, "taskComments", a.id) = {}
    THEN Thrown("NotFound", db, lim.b, "deleteComment")
    ELSE Returned(deleteTaskComment(db, a.id), lim.b, "deleteComment", a.id)

-----------------------------------------------------------------------------
(* endpoints/preferences.ts *)

\* preferences.get
PreferencesGet(caller) ==
    IF caller = NoUser THEN [res |-> "Unauthenticated", value |-> {}]
    ELSE LET prefs == getUserPreferencesByUser(db, caller)
         IN [res |-> "ok",
             value |-> IF prefs # {} THEN prefs ELSE {DefaultPreferences}]

\* preferences.update; a: one optional value per preference field
PreferencesUpdateRun(caller, a) ==
    IF caller = NoUser THEN Thrown("Unauthenticated", db, buckets, NoBucket)
    ELSE LET lim == Limit(buckets, "updatePreferences", caller, now) IN
    IF ~lim.ok THEN Thrown("RateLimited", db, lim.b, "updatePreferences")
    ELSE LET got == getOrCreateUserPreferences(db, caller, now) IN
    IF got.prefs = {}
    THEN Thrown("StoreError", got.db, lim.b, "updatePreferences")
    ELSE Returned(updateUserPreferences(got.db, TheRow(got.prefs)._id, a, now),
                  lim.b, "updatePreferences", TheRow(got.prefs)._id)

-----------------------------------------------------------------------------
(* endpoints/ai.ts *)

\* ai.createThread; a: title (optional)
AiCreateThreadRun(caller, a) ==
    IF caller = NoUser THEN Thrown("Unauthenticated", db, buckets, NoBucket)
    ELSE LET lim == Limit(buckets, "createThread", caller, now) IN
    IF ~lim.ok THEN Thrown("RateLimited", db, lim.b, "createThread")
    ELSE IF TruthyStr(a.title) /\ ~isValidThreadTitle(a.title)
    THEN Thrown("InvalidArgument", db, lim.b, "createThread")
    ELSE Returned(createThread(db,
                      [userId |-> caller,
                       title |-> IF TruthyStr(a.title)
                                 THEN Some(sanitizeString(a.title[1]))
                                 ELSE None,
                       status |-> "active"], now),
                  lim.b, "createThread", db.nextId["threads"])

AiSendMessageRunWithReply(caller, a) ==
    IF caller = NoUser THEN Thrown("Unauthenticated", db, buckets, NoBucket)
    ELSE LET lim == Limit(buckets, "sendMessage", caller, now) IN
    IF ~lim.ok THEN Thrown("RateLimited", db, lim.b, "sendMessage")
    ELSE LET thread == getThreadById(db, a.threadId) IN
    IF thread = {} THEN Thrown("NotFound", db, lim.b, "sendMessage")
    ELSE IF TheRow(thread).userId # caller
    THEN Thrown("Forbidden", db, lim.b, "sendMessage")
    ELSE LET content == sanitizeString(a.content) IN
    IF ~isValidMessageContent(content)
    THEN Thrown("InvalidArgument", db, lim.b, "sendMessage")
    ELSE Returned(createMessage(
                      createMessage(db,
                          [threadId |-> a.threadId, userId |-> caller,
                           role |-> "user", content |-> content], now),
                      [threadId |-> a.threadId, userId |-> caller,
                       role |-> "assistant", content |-> content], now),
                  lim.b, "sendMessage", db.nextId["messages"])

\* ai.sendMessage; a: threadId, content
AiSendMessageRun(caller, a) ==
    IF caller = NoUser THEN Thrown("Unauthenticated", db, buckets, NoBucket)
    ELSE LET lim == Limit(buckets, "sendMessage", caller, now) IN
    IF ~lim.ok THEN Thrown("RateLimited", db, lim.b, "sendMessage")
    ELSE LET thread == getThreadById(db, a.threadId) IN
    IF thread = {} THEN Thrown("NotFound", db, lim.b, "sendMessage")
    ELSE IF TheRow(thread).userId # caller
    THEN Thrown("Forbidden", db, lim.b, "sendMessage")
    ELSE LET content == sanitizeString(a.content) IN
    IF ~isValidMessageContent(content)
    THEN Thrown("InvalidArgument", db, lim.b, "sendMessage")
    ELSE Returned(createMessage(db,
                      [threadId |-> a.threadId, userId |-> caller,
                       role |-> "user", content |-> content], now),
                  lim.b, "sendMessage", db.nextId["messages"])

\* ai.updateThread; a: threadId and optional title, status.  No
\* rateLimiter.limit call.
AiUpdateThreadRun(caller, a) ==
    IF caller = NoUser THEN Thrown("Unauthenticated", db, buckets, NoBucket)
    ELSE LET thread == getThreadById(db, a.threadId) IN
    IF thread = {} THEN Thrown("NotFound", db, buckets, NoBucket)
    ELSE IF TheRow(thread).userId # caller
    THEN Thrown("Forbidden", db, buckets, NoBucket)
    ELSE IF TruthyStr(a.title) /\ ~isValidThreadTitle(a.title)
    THEN Thrown("InvalidArgument", db, buckets, NoBucket)
    ELSE LET updateData ==
                 [title |-> IF a.title # None
                            THEN Some(IF TruthyStr(a.title)
                                      THEN Some(sanitizeString(a.title[1]))
                                      ELSE None)
                            ELSE None,
                  status |-> IF a.status # None THEN Some(a.status[1])
                             ELSE None]
         IN Returned(updateThread(db, a.threadId, updateData, now),
                     buckets, NoBucket, a.threadId)


AiDeleteThreadWritesThreadFirst(a) ==
    LET d1 == deleteThread(db, a.threadId)
        d2 == deleteAllMessagesInThread(d1, a.threadId)
    IN <<d1, d2>>

\* ai.deleteThread, after its checks: the tables after each of its writes
\* (the messages go in one Promise.all; the thread row is there throughout)
AiDeleteThreadWrites(a) ==
    LET d1 == deleteAllMessagesInThread(db, a.threadId)
        d2 == deleteThread(d1, a.threadId)
    IN <<d1, d2>>

\* ai.deleteThread; a: threadId
AiDeleteThreadRun(caller, a) ==
    IF caller = NoUser THEN Thrown("Unauthenticated", db, buckets, NoBucket)
    ELSE LET lim == Limit(buckets, "deleteThread", caller, now) IN
    IF ~lim.ok THEN Thrown("RateLimited", db, lim.b, "deleteThread")
    ELSE LET thread == getThreadById(db, a.threadId) IN
    IF thread = {} THEN Thrown("NotFound", db, lim.b, "deleteThread")
    ELSE IF TheRow(thread).userId # caller
    THEN Thrown("Forbidden", db, lim.b, "deleteThread")
    ELSE Returned(Final(AiDeleteThreadWrites(a)),
                  lim.b, "deleteThread", a.threadId)

-----------------------------------------------------------------------------
(* endpoints/activity.ts *)

\* activity.getByTask
ActivityGetByTask(caller, taskId) ==
    IF caller = NoUser THEN [res |-> "Unauthenticated", value |-> <<>>]
    ELSE LET task == getTaskById(db, taskId)
         IN IF task = {} THEN [res |-> "NotFound", value |-> <<>>]
            ELSE IF TheRow(task).userId # caller
                 THEN [res |-> "Forbidden", value |-> <<>>]
                 ELSE [res |-> "ok", value |-> getActivityByTask(db, taskId)]

-----------------------------------------------------------------------------
(* endpoints/dashboard.ts (reads)                                          *)

\* dashboard.summary
DashboardSummary(caller) ==
    IF caller = NoUser THEN [res |-> "Unauthenticated", value |-> <<>>]
    ELSE LET todoCount == countTasksByStatus(db, caller, "todo")
             inProgressCount == countTasksByStatus(db, caller, "in_progress")
             completedCount == countTasksByStatus(db, caller, "completed")
             totalLabels == Len(getLabelsByUser(db, caller))
         IN [res |-> "ok",
             value |-> [tasks |-> [todo |-> todoCount,
                                   inProgress |-> inProgressCount,
                                   completed |-> completedCount,
                                   total |-> todoCount + inProgressCount
                                             + completedCount],
                        labels |-> totalLabels]]

\* the number of tasks dashboard.recent keeps: .slice(0, 10)
DASHBOARD_RECENT_LIMIT == 10

\* Array.prototype.sort((a, b) => b.updatedAt - a.updatedAt): stable, by
\* updatedAt descending
RECURSIVE SortByUpdatedDesc(_)
SortByUpdatedDesc(s) ==
    IF s = <<>> THEN <<>>
    ELSE LET i == CHOOSE k \in 1..Len(s) :
                      /\ \A j \in 1..Len(s) : s[k].updatedAt >= s[j].updatedAt
                      /\ \A j \in 1..(k - 1) : s[j].updatedAt < s[k].updatedAt
         IN <<s[i]>> \o SortByUpdatedDesc(SubSeq(s, 1, i - 1)
                                            \o SubSeq(s, i + 1, Len(s)))

DashboardRecentUnsorted(caller) ==
    IF caller = NoUser THEN [res |-> "Unauthenticated", value |-> <<>>]
    ELSE [res |-> "ok",
          value |-> Take(getTasksByUser(db, caller), DASHBOARD_RECENT_LIMIT)]

\* dashboard.recent
DashboardRecent(caller) ==
    IF caller = NoUser THEN [res |-> "Unauthenticated", value |-> <<>>]
    ELSE [res |-> "ok",
          value |-> Take(SortByUpdatedDesc(getTasksByUser(db, caller)),
                         DASHBOARD_RECENT_LIMIT)]

\* the limit dashboard.recentActivity passes to the data-access layer
DASHBOARD_ACTIVITY_LIMIT == 10

\* dashboard.recentActivity
DashboardRecentActivity(caller) ==
    IF caller = NoUser THEN [res |-> "Unauthenticated", value |-> <<>>]
    ELSE [res |-> "ok",
          value |-> getRecentActivityByUser(db, caller,
                                            DASHBOARD_ACTIVITY_LIMIT)]

\* dashboard.loadSummary: per table, the number of rows with the caller's
\* userId
DashboardLoadSummary(caller) ==
    IF caller = NoUser THEN [res |-> "Unauthenticated", value |-> <<>>]
    ELSE LET perTable == [tb \in TableNames |->
                            Cardinality({r \in db[tb] : r.userId = caller})]
             RECURSIVE Sum(_)
             Sum(T) == IF T = {} THEN 0
                       ELSE LET tb == CHOOSE x \in T : TRUE
                            IN perTable[tb] + Sum(T \ {tb})
         IN [res |-> "ok",
             value |-> [perTable |-> perTable,
                        totalRecords |-> Sum(TableNames)]]

-----------------------------------------------------------------------------
(* The read endpoints, by name.                                            *)

ReadOps ==
    {"tasks.list", "tasks.listByStatus", "tasks.get", "tasks.getCounts",
     "labels.list", "labels.get", "labels.getLabelsForTask",
     "labels.getTasksForLabel", "comments.listByTask",
     "activity.getByTask", "activity.getRecent", "activity.getAll",
     "preferences.get", "ai.listThreads", "ai.getThread",
     "dashboard.summary", "dashboard.recent", "dashboard.recentActivity",
     "dashboard.loadSummary"}

\* the load and authorize steps of a read that names a row, then its value
ReadOwned(caller, row, value) ==
    IF row = {} THEN [res |-> "NotFound", value |-> <<>>]
    ELSE IF TheRow(row).userId # caller
    THEN [res |-> "Forbidden", value |-> <<>>]
    ELSE [res |-> "ok", value |-> value]

\* Promise.all(rows.map(get)) with the nulls filtered out
Fetched(d, table, ids) ==
    LET present == SelectSeq(ids, LAMBDA id : Get(d, table, id) # {})
    IN [i \in 1..Len(present) |-> TheRow(Get(d, table, present[i]))]

\* what a read endpoint returns or throws in the current state
Read(op, caller, a) ==
    IF caller = NoUser THEN [res |-> "Unauthenticated", value |-> <<>>]
    ELSE CASE op = "tasks.list" -> TasksList(caller)
      [] op = "tasks.listByStatus" -> TasksListByStatus(caller, a.status)
      [] op = "tasks.get" -> TasksGet(caller, a.id)
      [] op = "tasks.getCounts" ->
            LET todoCount == countTasksByStatus(db, caller, "todo")
                inProgressCount ==
                    countTasksByStatus(db, caller, "in_progress")
                completedCount == countTasksByStatus(db, caller, "completed")
            IN [res |-> "ok",
                value |-> [todo |-> todoCount,
                           in_progress |-> inProgressCount,
                           completed |-> completedCount,
                           total |-> todoCount + inProgressCount
                                     + completedCount]]
      [] op = "labels.list" ->
            [res |-> "ok", value |-> getLabelsByUser(db, caller)]
      [] op = "labels.get" ->
            ReadOwned(caller, getLabelById(db, a.id), getLabelById(db, a.id))
      [] op = "labels.getLabelsForTask" ->
            LET tl == getLabelsForTask(db, a.taskId)
            IN ReadOwned(caller, getTaskById(db, a.taskId),
                         Fetched(db, "labels",
                                 [i \in 1..Len(tl) |-> tl[i].labelId]))
      [] op = "labels.getTasksForLabel" ->
            LET tl == getTasksForLabel(db, a.labelId)
            IN ReadOwned(caller, getLabelById(db, a.labelId),
                         Fetched(db, "tasks",
                                 [i \in 1..Len(tl) |-> tl[i].taskId]))
      [] op = "comments.listByTask" ->
            ReadOwned(caller, getTaskById(db, a.taskId),
                      getCommentsByTask(db, a.taskId))
      [] op = "activity.getByTask" -> ActivityGetByTask(caller, a.taskId)
      [] op = "activity.getRecent" ->
            [res |-> "ok",
             value |-> getRecentActivityByUser(
                           db, caller,
                           Patched(DEFAULT_ACTIVITY_LIMIT, a.limit))]
      [] op = "activity.getAll" ->
            [res |-> "ok", value |-> getActivityByUser(db, caller)]
      [] op = "preferences.get" -> PreferencesGet(caller)
      [] op = "ai.listThreads" ->
            [res |-> "ok",
             value |-> IF a.status # None
                       THEN getThreadsByUserAndStatus(db, caller, a.status[1])
                       ELSE getThreadsByUser(db, caller)]
      [] op = "ai.getThread" ->
            ReadOwned(caller, getThreadById(db, a.threadId),
                      [thread |-> getThreadById(db, a.threadId),
                       messages |-> getMessagesByThread(db, a.threadId)])
      [] op = "dashboard.summary" -> DashboardSummary(caller)
      [] op = "dashboard.recent" -> DashboardRecent(caller)
      [] op = "dashboard.recentActivity" -> DashboardRecentActivity(caller)
      [] op = "dashboard.loadSummary" -> DashboardLoadSummary(caller)

-----------------------------------------------------------------------------
(* The state machine.                                                      *)

Init ==
    /\ db = EmptyDb
    /\ buckets = FullBuckets
    /\ now = 1
    /\ calls = 0
    /\ pending = {}
    /\ last = [op |-> "init", caller |-> NoUser, args |-> [id |-> 0],
               res |-> "ok", limited |-> NoBucket, wrote |-> FALSE, ret |-> 0]

\* The state after user u1 has, within the first second, created as many
\* labels as the createLabel bucket holds tokens, renamed them until the
\* updateLabel bucket was empty, and removed them all: the tables are empty
\* again and u1's three label buckets hold no token.
DrainedBuckets == {"createLabel", "updateLabel", "deleteLabel"}

InitDrained ==
    /\ db = [EmptyDb EXCEPT
                !.nextId["labels"] = RateLimits["createLabel"].capacity + 1]
    /\ buckets = [n \in BucketNames |->
                    [u \in Users |->
                        IF u = "u1" /\ n \in DrainedBuckets
                        THEN [value |-> 0, ts |-> 1]
                        ELSE FullBuckets[n][u]]]
    /\ now = 1
    /\ calls = 0
    /\ pending = {}
    /\ last = [op |-> "labels.remove", caller |-> "u1",
               args |-> [id |-> RateLimits["createLabel"].capacity],
               res |-> "ok", limited |-> "deleteLabel", wrote |-> TRUE,
               ret |-> RateLimits["createLabel"].capacity]

\* mutation({handler}): one call of a handler as one transaction.  What the
\* handler wrote (tables and buckets) is kept when it returns and dropped
\* when it throws; `wrote` records whether it had written to a table.
Mutation(op, caller, a, r) ==
    /\ db' = IF r.res = "ok" THEN r.db ELSE db
    /\ buckets' = IF r.res = "ok" THEN r.b ELSE buckets
    /\ last' = [op |-> op, caller |-> caller, args |-> a, res |-> r.res,
                limited |-> r.limited, wrote |-> r.db # db, ret |-> r.ret]
    /\ calls' = calls + 1
    /\ UNCHANGED <<now, pending>>

QueryStoringDefaults(op, caller, a, r) ==
    /\ last' = [op |-> op, caller |-> caller, args |-> a, res |-> r.res,
                limited |-> NoBucket, wrote |-> FALSE, ret |-> 0]
    /\ calls' = calls + 1
    /\ db' = IF op = "preferences.get" /\ caller \in Users
             THEN getOrCreateUserPreferences(db, caller, now).db
             ELSE db
    /\ UNCHANGED <<buckets, now, pending>>

\* query({handler}): one call of a read handler.  The handler is given a
\* read-only ctx.db and none calls rateLimiter.limit: whether it returns or
\* throws, the tables and the buckets are those it found.  Its result is
\* the value of the read operator in the state it ran in.
Query(op, caller, a, r) ==
    /\ last' = [op |-> op, caller |-> caller, args |-> a, res |-> r.res,
                limited |-> NoBucket, wrote |-> FALSE, ret |-> 0]
    /\ calls' = calls + 1
    /\ UNCHANGED <<db, buckets, now, pending>>

PreferencesGetQuery(caller) ==
    Query("preferences.get", caller, [id |-> 0], PreferencesGet(caller))

TasksCreate(caller, a) ==
    Mutation("tasks.create", caller, a, TasksCreateRun(caller, a))

TasksUpdate(caller, a) ==
    Mutation("tasks.update", caller, a, TasksUpdateRun(caller, a))

TasksReorder(caller, a) ==
    Mutation("tasks.reorder", caller, a, TasksReorderRun(caller, a))

TasksRemove(caller, a) ==
    Mutation("tasks.remove", caller, a, TasksRemoveRun(caller, a))

LabelsCreate(caller, a) ==
    Mutation("labels.create", caller, a, LabelsCreateRun(caller, a))

LabelsUpdate(caller, a) ==
    Mutation("labels.update", caller, a, LabelsUpdateRun(caller, a))

LabelsRemove(caller, a) ==
    Mutation("labels.remove", caller, a, LabelsRemoveRun(caller, a))

LabelsAddToTask(caller, a) ==
    Mutation("labels.addToTask", caller, a, LabelsAddToTaskRun(caller, a))

LabelsRemoveFromTask(caller, a) ==
    Mutation("labels.removeFromTask", caller, a,
             LabelsRemoveFromTaskRun(caller, a))

CommentsCreate(caller, a) ==
    Mutation("comments.create", caller, a, CommentsCreateRun(caller, a))

CommentsRemove(caller, a) ==
    Mutation("comments.remove", caller, a, CommentsRemoveRun(caller, a))

PreferencesUpdate(caller, a) ==
    Mutation("preferences.update", caller, a, PreferencesUpdateRun(caller, a))

AiCreateThread(caller, a) ==
    Mutation("ai.createThread", caller, a, AiCreateThreadRun(caller, a))

AiSendMessage(caller, a) ==
    Mutation("ai.sendMessage", caller, a, AiSendMessageRun(caller, a))

AiUpdateThread(caller, a) ==
    Mutation("ai.updateThread", caller, a, AiUpdateThreadRun(caller, a))

AiDeleteThread(caller, a) ==
    Mutation("ai.deleteThread", caller, a, AiDeleteThreadRun(caller, a))

\* labels.addToTask run without the isolation of a transaction, in two
\* steps.  First step: the handler up to and including the taskLabelExists
\* check, on the tables as they are; a handler that throws ends here, one
\* that passes every check keeps its token and is pending.
LabelsAddToTaskCheck(caller, a) ==
    LET r == LabelsAddToTaskRun(caller, a)
    IN /\ calls' = calls + 1
       /\ buckets' = IF r.res = "ok" THEN r.b ELSE buckets
       /\ pending' = IF r.res = "ok"
                     THEN pending \cup {[call |-> calls + 1,
                                         caller |-> caller, args |-> a]}
                     ELSE pending
       /\ last' = IF r.res = "ok" THEN last
                  ELSE [op |-> "labels.addToTask", caller |-> caller,
                        args |-> a, res |-> r.res, limited |-> r.limited,
                        wrote |-> FALSE, ret |-> 0]
       /\ UNCHANGED <<db, now>>

LabelsAddToTaskInsertRechecked(p) ==
    /\ p \in pending
    /\ pending' = pending \ {p}
    /\ db' = IF taskLabelExists(db, p.args.taskId, p.args.labelId) THEN db
             ELSE createTaskLabel(db, [taskId |-> p.args.taskId,
                                       labelId |-> p.args.labelId,
                                       userId |-> p.caller], now)
    /\ last' = [op |-> "labels.addToTask", caller |-> p.caller,
                args |-> p.args,
                res |-> IF taskLabelExists(db, p.args.taskId, p.args.labelId)
                        THEN "InvalidArgument" ELSE "ok",
                limited |-> "addLabelToTask", wrote |-> db' # db,
                ret |-> db.nextId["taskLabels"]]
    /\ UNCHANGED <<buckets, now, calls>>

\* Second step of a pending call: TaskLabels.createTaskLabel, on the tables
\* as they are by then, and the return of the new id.
LabelsAddToTaskInsert(p) ==
    /\ p \in pending
    /\ pending' = pending \ {p}
    /\ db' = createTaskLabel(db, [taskId |-> p.args.taskId,
                                  labelId |-> p.args.labelId,
                                  userId |-> p.caller], now)
    /\ last' = [op |-> "labels.addToTask", caller |-> p.caller,
                args |-> p.args, res |-> "ok",
                limited |-> "addLabelToTask", wrote |-> TRUE,
                ret |-> db.nextId["taskLabels"]]
    /\ UNCHANGED <<buckets, now, calls>>

\* time passes between two calls
Tick ==
    /\ now < MaxTime
    /\ now' = now + 1
    /\ UNCHANGED <<db, buckets, last, calls, pending>>

-----------------------------------------------------------------------------
(* Inputs.                                                                 *)

\* the ids a caller can name: every id the table has handed out, and the
\* next one, which no document has
Ids(table) == 1..db.nextId[table]

TitleA == Str("a", 1)
TitleB == Str("b", 1)
\* " a": trims to TitleA
PaddedA == <<Run(" ", 1), Run("a", 1)>>
\* blanks only: trims to the empty string
Blank == Str(" ", 2)
\* one character more than a title may have
TooLong == Str("a", MAX_TASK_TITLE_LENGTH + 1)

Indigo == Color(TRUE, TRUE, 6)
NoHash == Color(FALSE, TRUE, 6)

NoTaskUpdate ==
    [title |-> None, description |-> None, status |-> None,
     priority |-> None, dueDate |-> None]

NoPrefs == [f \in PrefFields |-> None]

\* Spec: every endpoint, with one valid and one invalid input each
CreateArgsS ==
    {[title |-> t, description |-> None, priority |-> "low", dueDate |-> None] :
        t \in {TitleA, Blank}}

UpdateArgsS ==
    {[NoTaskUpdate EXCEPT !.status = Some("completed")],
     [NoTaskUpdate EXCEPT !.title = Some(Blank)]}

ThreadArgsS ==
    {[title |-> None, status |-> Some("archived")],
     [title |-> Some(Blank), status |-> None]}

WithId(a, id) == [id |-> id] @@ a

\* one step of the deployment: time passes, or one of the first n calls is made
Calls(budget) ==
    \/ Tick
    \/ \E c \in Callers, a \in CreateArgsS :
           calls < budget /\ TasksCreate(c, a)
    \/ \E c \in Callers, id \in Ids("tasks"), a \in UpdateArgsS :
           calls < budget /\ TasksUpdate(c, WithId(a, id))
    \/ \E c \in Callers, id \in Ids("tasks") :
           calls < budget /\ TasksReorder(c, [id |-> id, newOrder |-> 1])
    \/ \E c \in Callers, id \in Ids("tasks") :
           calls < budget /\ TasksRemove(c, [id |-> id])
    \/ \E c \in Callers, n \in {TitleA, Blank} :
           calls < budget /\ LabelsCreate(c, [name |-> n, color |-> Indigo])
    \/ \E c \in Callers, id \in Ids("labels"), n \in {TitleB, Blank} :
           calls < budget
           /\ LabelsUpdate(c, [id |-> id, name |-> Some(n), color |-> None])
    \/ \E c \in Callers, id \in Ids("labels") :
           calls < budget /\ LabelsRemove(c, [id |-> id])
    \/ \E c \in Callers, t \in Ids("tasks"), l \in Ids("labels") :
           calls < budget /\ LabelsAddToTask(c, [taskId |-> t, labelId |-> l])
    \/ \E c \in Callers, t \in Ids("tasks"), l \in Ids("labels") :
           calls < budget
           /\ LabelsRemoveFromTask(c, [taskId |-> t, labelId |-> l])
    \/ \E c \in Callers, t \in Ids("tasks"), n \in {TitleA, Blank} :
           calls < budget
           /\ CommentsCreate(c, [taskId |-> t, content |-> n, type |-> None])
    \/ \E c \in Callers, id \in Ids("taskComments") :
           calls < budget /\ CommentsRemove(c, [id |-> id])
    \/ \E c \in Callers :
           calls < budget
           /\ PreferencesUpdate(c, [NoPrefs EXCEPT !.theme = Some("dark")])
    \/ \E c \in Callers, t \in {None, Some(Blank)} :
           calls < budget /\ AiCreateThread(c, [title |-> t])
    \/ \E c \in Callers, id \in Ids("threads"), n \in {TitleA, Blank} :
           calls < budget /\ AiSendMessage(c, [threadId |-> id, content |-> n])
    \/ \E c \in Callers, id \in Ids("threads"), a \in ThreadArgsS :
           calls < budget /\ AiUpdateThread(c, [threadId |-> id] @@ a)
    \/ \E c \in Callers, id \in Ids("threads") :
           calls < budget /\ AiDeleteThread(c, [threadId |-> id])

Next == Calls(MaxCalls)

Spec == Init /\ [][Next]_vars

NextDrained == Calls(MaxDrainedCalls)

\* every endpoint, starting with u1's label buckets empty
SpecDrained == InitDrained /\ [][NextDrained]_vars

\* SpecTasks: the task endpoints with the inputs that tell their cases
\* apart, and the endpoints that give a task its dependent rows
UpdateArgsT ==
    {[NoTaskUpdate EXCEPT !.title = t, !.status = st, !.priority = pr] :
        t \in {None, Some(TitleB)},
        st \in {None, Some("todo"), Some("in_progress"), Some("completed")},
        pr \in {None, Some("low"), Some("high")}}

NextTasks ==
    \/ \E c \in Users :
           calls < MaxTaskCalls
           /\ TasksCreate(c, [title |-> TitleA, description |-> None,
                              priority |-> "low", dueDate |-> None])
    \/ \E c \in Users, id \in Ids("tasks"), a \in UpdateArgsT :
           calls < MaxTaskCalls /\ TasksUpdate(c, WithId(a, id))
    \/ \E c \in Users, id \in Ids("tasks"), o \in {1, 2} :
           calls < MaxTaskCalls /\ TasksReorder(c, [id |-> id, newOrder |-> o])
    \/ \E c \in Users, id \in Ids("tasks") :
           calls < MaxTaskCalls /\ TasksRemove(c, [id |-> id])
    \/ \E c \in Users, t \in Ids("tasks") :
           calls < MaxTaskCalls
           /\ CommentsCreate(c, [taskId |-> t, content |-> TitleA,
                                 type |-> None])

SpecTasks == Init /\ [][NextTasks]_vars

\* SpecLabels: the label endpoints, with names that differ, that are equal
\* and that are equal once trimmed
NextLabels ==
    \/ \E c \in Users :
           calls < MaxLabelCalls
           /\ TasksCreate(c, [title |-> TitleA, description |-> None,
                              priority |-> "low", dueDate |-> None])
    \/ \E c \in Users, id \in Ids("tasks") :
           calls < MaxLabelCalls /\ TasksRemove(c, [id |-> id])
    \/ \E c \in Users, n \in {TitleA, PaddedA, TitleB} :
           calls < MaxLabelCalls
           /\ LabelsCreate(c, [name |-> n, color |-> Indigo])
    \/ \E c \in Users, id \in Ids("labels"),
          n \in {None, Some(TitleA), Some(PaddedA), Some(TitleB)} :
           calls < MaxLabelCalls
           /\ LabelsUpdate(c, [id |-> id, name |-> n, color |-> Some(Indigo)])
    \/ \E c \in Users, id \in Ids("labels") :
           calls < MaxLabelCalls /\ LabelsRemove(c, [id |-> id])
    \/ \E c \in Users, t \in Ids("tasks"), l \in Ids("labels") :
           calls < MaxLabelCalls
           /\ LabelsAddToTask(c, [taskId |-> t, labelId |-> l])
    \/ \E c \in Users, t \in Ids("tasks"), l \in Ids("labels") :
           calls < MaxLabelCalls
           /\ LabelsRemoveFromTask(c, [taskId |-> t, labelId |-> l])

SpecLabels == Init /\ [][NextLabels]_vars

\* SpecFields: tasks.create and tasks.update with titles at the length
\* bounds, padded titles, and due dates in the past and in the future
Title200 == Str("a", MAX_TASK_TITLE_LENGTH)
\* one blank
Blank1 == Str(" ", 1)
\* 201 characters that trim to 200
Padded200 == <<Run(" ", 1), Run("a", MAX_TASK_TITLE_LENGTH)>>

TitlesF == {EmptyStr, TitleA, Blank1, Title200, TooLong, Padded200}

\* the current time at the first call (not later than now), and a later time
PastDue == 1
FutureDue == 5
DueDatesF == {None, Some(PastDue), Some(FutureDue)}

NextFields ==
    \/ \E c \in Callers, t \in TitlesF, dd \in DueDatesF :
           calls < MaxFieldCalls
           /\ TasksCreate(c, [title |-> t, description |-> None,
                              priority |-> "low", dueDate |-> dd])
    \/ \E c \in Callers, id \in Ids("tasks"),
          t \in {None} \cup {Some(x) : x \in TitlesF}, dd \in DueDatesF :
           calls < MaxFieldCalls
           /\ TasksUpdate(c, [NoTaskUpdate EXCEPT !.title = t, !.dueDate = dd]
                              @@ [id |-> id])

SpecFields == Init /\ [][NextFields]_vars

\* SpecMinute: one user creates tasks for one minute and never lets a token
\* rest: time passes only while the createTask bucket holds no whole token
MinuteEnd == 1 + MINUTE

Wait ==
    /\ now < MinuteEnd
    /\ Tokens(buckets, "createTask", "u1", now) < SCALE
    /\ now' = now + 1
    /\ UNCHANGED <<db, buckets, last, calls, pending>>

NextMinute ==
    \/ Wait
    \/ calls < MaxMinuteCalls
       /\ TasksCreate("u1", [title |-> TitleA, description |-> None,
                             priority |-> "low", dueDate |-> None])

SpecMinute == Init /\ [][NextMinute]_vars

\* SpecBoard: the calls behind the dashboard counts: both users create
\* tasks and labels, u1 moves its tasks through the statuses
NextBoard ==
    \/ \E c \in Users :
           calls < MaxBoardCalls
           /\ TasksCreate(c, [title |-> TitleA, description |-> None,
                              priority |-> "low", dueDate |-> None])
    \/ \E id \in 1..(db.nextId["tasks"] - 1),
          st \in {"in_progress", "completed"} :
           calls < MaxBoardCalls
           /\ TasksUpdate("u1", [NoTaskUpdate EXCEPT !.status = Some(st)]
                                 @@ [id |-> id])
    \/ \E c \in Users :
           calls < MaxBoardCalls
           /\ LabelsCreate(c, [name |-> TitleA, color |-> Indigo])

SpecBoard == Init /\ [][NextBoard]_vars

\* SpecPrefs: preferences.update with subsets of the fields
PrefArgsP ==
    {[NoPrefs EXCEPT !.theme = th, !.sortBy = sb, !.showCompleted = sc,
                     !.enableAI = ai] :
        th \in {None, Some("dark"), Some("light")},
        sb \in {None, Some("custom")},
        sc \in {None, Some(FALSE)},
        ai \in {None, Some(FALSE), Some(TRUE)}}

NextPrefs ==
    \/ \E c \in Callers, a \in PrefArgsP :
           calls < MaxPrefCalls /\ PreferencesUpdate(c, a)
    \/ \E c \in Callers :
           calls < MaxPrefCalls /\ PreferencesGetQuery(c)

SpecPrefs == Init /\ [][NextPrefs]_vars

\* SpecLog: both users create tasks, the first user changes status and
\* priority of task 1 again and again; time passes
StatusesL == {Some("todo"), Some("completed")}
PrioritiesL == {Some("low"), Some("high")}

NextLog ==
    \/ \E c \in Users :
           calls < MaxLogCalls
           /\ TasksCreate(c, [title |-> TitleA, description |-> None,
                              priority |-> "low", dueDate |-> None])
    \/ \E st \in StatusesL, pr \in PrioritiesL :
           calls < MaxLogCalls
           /\ TasksUpdate("u1", WithId([NoTaskUpdate EXCEPT !.status = st,
                                                            !.priority = pr],
                                        1))
    \/ Tick

SpecLog == Init /\ [][NextLog]_vars

\* SpecThreads: threads are created, written to and deleted
NextThreads ==
    \/ \E c \in Users :
           calls < MaxThreadCalls /\ AiCreateThread(c, [title |-> None])
    \/ \E c \in Users, id \in Ids("threads"), n \in {TitleA, PaddedA} :
           calls < MaxThreadCalls
           /\ AiSendMessage(c, [threadId |-> id, content |-> n])
    \/ \E c \in Users, id \in Ids("threads") :
           calls < MaxThreadCalls /\ AiDeleteThread(c, [threadId |-> id])

SpecThreads == Init /\ [][NextThreads]_vars

\* SpecRefs: parent rows (tasks, labels, threads) and the rows that refer
\* to them are created, and the parents are removed
NextRefs ==
    \/ \E c \in Users :
           calls < MaxRefCalls
           /\ TasksCreate(c, [title |-> TitleA, description |-> None,
                              priority |-> "low", dueDate |-> None])
    \/ \E c \in Users :
           calls < MaxRefCalls
           /\ LabelsCreate(c, [name |-> TitleA, color |-> Indigo])
    \/ \E c \in Users, t \in Ids("tasks"), l \in Ids("labels") :
           calls < MaxRefCalls
           /\ LabelsAddToTask(c, [taskId |-> t, labelId |-> l])
    \/ \E c \in Users, t \in Ids("tasks") :
           calls < MaxRefCalls
           /\ CommentsCreate(c, [taskId |-> t, content |-> TitleA,
                                 type |-> None])
    \/ \E c \in Users, id \in Ids("labels") :
           calls < MaxRefCalls /\ LabelsRemove(c, [id |-> id])
    \/ \E c \in Users, id \in Ids("tasks") :
           calls < MaxRefCalls /\ TasksRemove(c, [id |-> id])
    \/ \E c \in Users :
           calls < MaxRefCalls /\ AiCreateThread(c, [title |-> None])
    \/ \E c \in Users, id \in Ids("threads") :
           calls < MaxRefCalls
           /\ AiSendMessage(c, [threadId |-> id, content |-> TitleA])

SpecRefs == Init /\ [][NextRefs]_vars

\* SpecBurst: the first user creates a task and updates it until the
\* updateTask bucket is nearly empty; from then on both users create,
\* update and reorder.  Time passes at any moment.
BurstLead == RateLimits["updateTask"].capacity - 1

BurstTask == [title |-> TitleA, description |-> None, priority |-> "low",
              dueDate |-> None]

BurstUpdate(id) == WithId([NoTaskUpdate EXCEPT !.title = Some(TitleB)], id)

NextBurst ==
    \/ /\ calls < BurstLead
       /\ IF db.tasks = {} THEN TasksCreate("u1", BurstTask)
          ELSE TasksUpdate("u1", BurstUpdate(1))
    \/ \E c \in Users :
           /\ BurstLead <= calls /\ calls < MaxBurstCalls
           /\ db.nextId["tasks"] <= MaxBurstTasks
           /\ TasksCreate(c, BurstTask)
    \/ \E c \in Users, id \in 1..MaxBurstTasks :
           /\ BurstLead <= calls /\ calls < MaxBurstCalls
           /\ TasksUpdate(c, BurstUpdate(id))
    \/ \E c \in Users, id \in 1..MaxBurstTasks :
           /\ BurstLead <= calls /\ calls < MaxBurstCalls
           /\ TasksReorder(c, [id |-> id, newOrder |-> 1])
    \/ Tick

SpecBurst == Init /\ [][NextBurst]_vars

\* SpecRecent: the first user creates tasks as fast as the createTask bucket
\* admits until there are as many calls as dashboard.recent shows tasks;
\* from then on both users create tasks and the first user updates its
\* oldest ones.  Time passes while the first user's bucket has no token.
RecentLead == DASHBOARD_RECENT_LIMIT

DashboardRecentQuery(caller) ==
    Query("dashboard.recent", caller, [id |-> 0], DashboardRecent(caller))

NextRecent ==
    \/ Wait
    \/ calls < RecentLead /\ TasksCreate("u1", BurstTask)
    \/ \E c \in Users :
           /\ RecentLead <= calls /\ calls < MaxRecentCalls
           /\ TasksCreate(c, BurstTask)
    \/ \E id \in {1, 2} :
           /\ RecentLead <= calls /\ calls < MaxRecentCalls
           /\ TasksUpdate("u1", BurstUpdate(id))
    \/ \E c \in Callers :
           /\ RecentLead <= calls /\ calls < MaxRecentCalls
           /\ DashboardRecentQuery(c)

SpecRecent == Init /\ [][NextRecent]_vars

\* SpecReads: a few rows of every table are written, and every read
\* endpoint is called by each caller with ids that exist and that do not
ReadArgs(op) ==
    CASE op \in {"tasks.get", "labels.get"} -> {[id |-> i] : i \in 1..2}
      [] op \in {"labels.getLabelsForTask", "comments.listByTask",
                 "activity.getByTask"} -> {[taskId |-> i] : i \in 1..2}
      [] op = "labels.getTasksForLabel" -> {[labelId |-> i] : i \in 1..2}
      [] op = "ai.getThread" -> {[threadId |-> i] : i \in 1..2}
      [] op = "tasks.listByStatus" -> {[status |-> "todo"]}
      [] op = "ai.listThreads" ->
            {[status |-> st] : st \in {None, Some("active")}}
      [] op = "activity.getRecent" -> {[limit |-> None]}
      [] OTHER -> {[id |-> 0]}

NextReads ==
    \/ \E op \in ReadOps, c \in Callers :
           \E a \in ReadArgs(op) :
               calls < MaxReadCalls /\ Query(op, c, a, Read(op, c, a))
    \/ \E c \in Users :
           calls < MaxReadCalls /\ TasksCreate(c, BurstTask)
    \/ calls < MaxReadCalls
       /\ LabelsCreate("u1", [name |-> TitleA, color |-> Indigo])
    \/ calls < MaxReadCalls
       /\ LabelsAddToTask("u1", [taskId |-> 1, labelId |-> 1])
    \/ calls < MaxReadCalls
       /\ CommentsCreate("u1", [taskId |-> 1, content |-> TitleA,
                                type |-> None])
    \/ calls < MaxReadCalls /\ AiCreateThread("u1", [title |-> None])
    \/ calls < MaxReadCalls
       /\ AiSendMessage("u1", [threadId |-> 1, content |-> TitleA])
    \/ calls < MaxReadCalls
       /\ PreferencesUpdate("u2", [NoPrefs EXCEPT !.theme = Some("dark")])

SpecReads == Init /\ [][NextReads]_vars

\* SpecRace: tasks and labels are created in transactions; labels.addToTask
\* runs in two steps, so that calls can overlap
NextRace ==
    \/ \E c \in Users :
           calls < MaxRaceCalls /\ TasksCreate(c, BurstTask)
    \/ \E c \in Users :
           calls < MaxRaceCalls
           /\ LabelsCreate(c, [name |-> TitleA, color |-> Indigo])
    \/ \E c \in Users, t \in Ids("tasks"), l \in Ids("labels") :
           calls < MaxRaceCalls
           /\ LabelsAddToTaskCheck(c, [taskId |-> t, labelId |-> l])
    \/ \E p \in pending : LabelsAddToTaskInsert(p)

SpecRace == Init /\ [][NextRace]_vars

-----------------------------------------------------------------------------
(* Vocabulary of the properties.                                           *)

\* a step that is an endpoint call (last' describes it)
CallStep == calls' = calls + 1

MutatingOps ==
    {"tasks.create", "tasks.update", "tasks.reorder", "tasks.remove",
     "labels.create", "labels.update", "labels.remove", "labels.addToTask",
     "labels.removeFromTask", "comments.create", "comments.remove",
     "preferences.update", "ai.createThread", "ai.sendMessage",
     "ai.updateThread", "ai.deleteThread"}

\* the tables whose rows carry a userId, which is all of them
OwnedTables == TableNames

\* the rows a call names: <<table, id>> in the order of the arguments
Refs(op, a) ==
    CASE op \in {"tasks.update", "tasks.reorder", "tasks.remove"} ->
             << <<"tasks", a.id>> >>
      [] op \in {"labels.update", "labels.remove"} -> << <<"labels", a.id>> >>
      [] op \in {"labels.addToTask", "labels.removeFromTask"} ->
             << <<"tasks", a.taskId>>, <<"labels", a.labelId>> >>
      [] op = "comments.create" -> << <<"tasks", a.taskId>> >>
      [] op = "comments.remove" -> << <<"taskComments", a.id>> >>
      [] op \in {"ai.sendMessage", "ai.updateThread", "ai.deleteThread"} ->
             << <<"threads", a.threadId>> >>
      [] OTHER -> <<>>

\* the call names a row that exists and belongs to somebody else
NamesForeignRow(d, op, caller, a) ==
    \E i \in 1..Len(Refs(op, a)) :
        \E r \in Get(d, Refs(op, a)[i][1], Refs(op, a)[i][2]) :
            r.userId # caller

\* the rows of a table that a step inserted, patched or deleted
Touched(table) == (db[table] \ db'[table]) \cup (db'[table] \ db[table])

\* C1: a call authenticated as A never inserts, patches or deletes a row
\* whose userId is B, and a call by A that names a row owned by B fails
\* with Forbidden and changes nothing; comments.remove included.
C1_OwnerOnly ==
    [][CallStep /\ last'.caller \in Users =>
         /\ \A t \in OwnedTables : \A r \in Touched(t) :
                r.userId = last'.caller
         /\ NamesForeignRow(db, last'.op, last'.caller, last'.args) =>
                /\ last'.res \in {"Forbidden", "RateLimited", "NotFound"}
                /\ db' = db]_vars

\* the bucket the rate limiter configures for an operation
\* (ai.updateThread has none)
BucketOf(op) ==
    CASE op = "tasks.create" -> "createTask"
      [] op \in {"tasks.update", "tasks.reorder"} -> "updateTask"
      [] op = "tasks.remove" -> "deleteTask"
      [] op = "labels.create" -> "createLabel"
      [] op = "labels.update" -> "updateLabel"
      [] op = "labels.remove" -> "deleteLabel"
      [] op = "labels.addToTask" -> "addLabelToTask"
      [] op = "labels.removeFromTask" -> "removeLabelFromTask"
      [] op = "comments.create" -> "createComment"
      [] op = "comments.remove" -> "deleteComment"
      [] op = "preferences.update" -> "updatePreferences"
      [] op = "ai.createThread" -> "createThread"
      [] op = "ai.sendMessage" -> "sendMessage"
      [] op = "ai.deleteThread" -> "deleteThread"
      [] OTHER -> NoBucket

\* the caller's bucket for the operation has no whole token left
BucketEmpty(b, op, caller, t) ==
    /\ caller \in Users
    /\ BucketOf(op) # NoBucket
    /\ Tokens(b, BucketOf(op), caller, t) < SCALE

\* C3: every mutating endpoint consults the caller's token bucket before
\* any table write: a call made while the bucket is empty fails with
\* RateLimited and writes nothing, and no mutation writes to a table
\* without having passed a rate-limit check (which takes one token).
C3_RateLimitedBeforeWrite ==
    [][CallStep /\ last'.op \in MutatingOps =>
         /\ BucketEmpty(buckets, last'.op, last'.caller, now) =>
                last'.res = "RateLimited" /\ db' = db
         /\ db' # db =>
                /\ last'.limited # NoBucket
                /\ Tokens(buckets', last'.limited, last'.caller, now)
                     = Tokens(buckets, last'.limited, last'.caller, now) - SCALE
       ]_vars

\* the payload of a call fails a validation predicate or a uniqueness rule
InvalidPayload(d, op, caller, a) ==
    CASE op = "tasks.create" ->
             \/ ~isValidTaskTitle(a.title)
             \/ ~isValidTaskDescription(a.description)
      [] op = "tasks.update" ->
             \/ a.title # None /\ ~isValidTaskTitle(a.title[1])
             \/ ~isValidTaskDescription(a.description)
      [] op = "labels.create" ->
             \/ ~isValidLabelName(a.name)
             \/ ~isValidHexColor(a.color)
             \/ \E l \in d.labels : l.userId = caller /\ l.name = Trim(a.name)
      [] op = "labels.update" ->
             \/ a.name # None /\ ~isValidLabelName(a.name[1])
             \/ a.color # None /\ ~isValidHexColor(a.color[1])
             \/ /\ a.name # None
                /\ \E l \in d.labels : /\ l.userId = caller
                                       /\ l._id # a.id
                                       /\ l.name = Trim(a.name[1])
      [] op = "labels.addToTask" ->
             \E tl \in d.taskLabels :
                 tl.taskId = a.taskId /\ tl.labelId = a.labelId
      [] op = "comments.create" -> ~isValidCommentContent(a.content)
      [] op = "ai.sendMessage" -> ~isValidMessageContent(a.content)
      [] op \in {"ai.createThread", "ai.updateThread"} ->
             ~isValidThreadTitle(a.title)
      [] OTHER -> FALSE

\* The error of the earliest failing step of the call protocol: authenticate,
\* rate-limit, load and authorize each named row in turn, validate.
\* "none" when no step fails.
ExpectedError(d, b, t, op, caller, a) ==
    IF caller = NoUser THEN "Unauthenticated"
    ELSE IF BucketEmpty(b, op, caller, t) THEN "RateLimited"
    ELSE LET refs == Refs(op, a)
             rows(i) == Get(d, refs[i][1], refs[i][2])
             bad == {i \in 1..Len(refs) :
                        rows(i) = {} \/ TheRow(rows(i)).userId # caller}
         IN IF bad # {}
            THEN IF rows(CHOOSE i \in bad : \A j \in bad : i <= j) = {}
                 THEN "NotFound" ELSE "Forbidden"
            ELSE IF InvalidPayload(d, op, caller, a) THEN "InvalidArgument"
            ELSE "none"

\* the steps of the call protocol that a call fails: 1 authenticate,
\* 2 rate-limit, 3 load and authorize, 4 validate
FailingSteps(d, b, t, op, caller, a) ==
    {n \in 1..4 :
        \/ n = 1 /\ caller = NoUser
        \/ n = 2 /\ caller # NoUser /\ BucketEmpty(b, op, caller, t)
        \/ n = 3 /\ \E i \in 1..Len(Refs(op, a)) :
                        LET row == Get(d, Refs(op, a)[i][1], Refs(op, a)[i][2])
                        IN row = {} \/ TheRow(row).userId # caller
        \/ n = 4 /\ InvalidPayload(d, op, caller, a)}

\* C4: when a mutating call fails at several steps at once, the error it
\* returns is that of the earliest failing step in the order
\* Unauthenticated, RateLimited, NotFound, Forbidden, InvalidArgument.
C4_EarliestStepError ==
    [][CallStep /\ last'.op \in MutatingOps
         /\ Cardinality(FailingSteps(db, buckets, now, last'.op, last'.caller,
                                      last'.args)) >= 2
       => /\ last'.res = ExpectedError(db, buckets, now, last'.op,
                                       last'.caller, last'.args)
          /\ db' = db]_vars

\* with an empty bucket, another user's label was renamed to a blank name:
\* RateLimited, neither Forbidden nor InvalidArgument
C4_Witness ==
    /\ last.op = "labels.update"
    /\ last.res = "RateLimited"
    /\ last.args.name = Some(Blank)
    /\ FailingSteps(db, buckets, now, last.op, last.caller, last.args) = {2, 3, 4}

\* C5: an endpoint call that ends in an error leaves every table unchanged,
\* and its handler had written to no table when it threw.
C5_FailedCallWritesNothing ==
    [][CallStep /\ last'.res # "ok" => db' = db /\ ~last'.wrote]_vars

\* a call failed its validation against tables that hold rows
C5_Witness ==
    /\ last.op = "tasks.update"
    /\ last.res = "InvalidArgument"
    /\ \E t \in db.tasks : t._id = last.args.id /\ t.userId = last.caller

-----------------------------------------------------------------------------
(* Task properties (SpecTasks).                                            *)

\* C2: every task created by user U has userId U (the owner is the caller
\* of the tasks.create that inserted it and never changes); tasks.get on
\* it by another user fails with Forbidden, and tasks.list and
\* tasks.listByStatus called by another user never contain it.
C2_OwnerVisibility ==
    /\ [](\A t \in db.tasks : \A u \in Users \ {t.userId} :
            /\ TasksGet(u, t._id).res = "Forbidden"
            /\ t \notin Range(TasksList(u).value)
            /\ \A st \in TASK_STATUSES :
                   t \notin Range(TasksListByStatus(u, st).value))
    /\ [][\A t \in db'.tasks :
            IF \E s \in db.tasks : s._id = t._id
            THEN \A s \in db.tasks : s._id = t._id => s.userId = t.userId
            ELSE /\ CallStep
                 /\ last'.op = "tasks.create"
                 /\ t.userId = last'.caller]_vars

\* both users hold a task, and one of them has been updated by its owner
C2_Witness ==
    /\ \E t1, t2 \in db.tasks :
           /\ t1.userId = "u1" /\ t2.userId = "u2"
           /\ TasksGet("u2", t1._id).res = "Forbidden"
           /\ Len(TasksList("u2").value) = 1
    /\ last.op = "tasks.update" /\ last.res = "ok"

\* C6: after a successful tasks.remove(id) by the owner, no association and
\* no comment of the task remains, the task row is gone, and all activity
\* rows of the task (the 'deleted' record included) are still present and
\* are returned to the owner by activity.getByTask(id).
C6_RemoveKeepsActivityReadable ==
    last.op = "tasks.remove" /\ last.res = "ok" =>
        LET id == last.args.id
            log == {r \in db.taskActivity : r.taskId = id}
        IN /\ getTaskById(db, id) = {}
           /\ \A tl \in db.taskLabels : tl.taskId # id
           /\ \A c \in db.taskComments : c.taskId # id
           /\ \E r \in log : r.action = "deleted"
           /\ \E r \in log : r.action = "created"
           /\ ActivityGetByTask(last.caller, id).res = "ok"
           /\ Range(ActivityGetByTask(last.caller, id).value) = log

\* C7: a task has completedAt set if and only if its status is completed,
\* and an update that supplies the task's current status leaves
\* completedAt as it was.
C7_CompletedAtIffCompleted ==
    /\ [](\A t \in db.tasks : (t.completedAt # None) <=> (t.status = "completed"))
    /\ [][CallStep /\ last'.op = "tasks.update" /\ last'.res = "ok" =>
            \A old \in getTaskById(db, last'.args.id) :
                last'.args.status = Some(old.status) =>
                    \A new \in getTaskById(db', last'.args.id) :
                        new.completedAt = old.completedAt]_vars

\* a task that was completed and then set back to todo
C7_Witness ==
    \E t \in db.tasks :
        /\ t.status = "todo" /\ t.completedAt = None
        /\ \E r \in db.taskActivity :
               /\ r.taskId = t._id /\ r.action = "status_changed"
               /\ r.oldValue = Some("completed") /\ r.newValue = Some("todo")

\* C8: a successful tasks.update that changes both the status and the
\* priority appends exactly two activity records, one status_changed with
\* (old status, new status) and one priority_changed with (old priority,
\* new priority), and no 'updated' record; one that changes exactly one of
\* the two appends exactly one record, of the matching kind.
C8_TwoRecordsNotThree ==
    [][CallStep /\ last'.op = "tasks.update" /\ last'.res = "ok" =>
         LET a == last'.args
             old == TheRow(getTaskById(db, a.id))
             sc == a.status # None /\ a.status[1] # old.status
             pc == a.priority # None /\ a.priority[1] # old.priority
             added == db'.taskActivity \ db.taskActivity
             statusRec(r) == /\ r.action = "status_changed"
                             /\ r.taskId = a.id
                             /\ r.oldValue = Some(old.status)
                             /\ r.newValue = a.status
             priorityRec(r) == /\ r.action = "priority_changed"
                               /\ r.taskId = a.id
                               /\ r.oldValue = Some(old.priority)
                               /\ r.newValue = a.priority
         IN /\ db.taskActivity \subseteq db'.taskActivity
            /\ sc /\ pc => /\ Cardinality(added) = 2
                           /\ \E r \in added : statusRec(r)
                           /\ \E r \in added : priorityRec(r)
            /\ sc /\ ~pc => /\ Cardinality(added) = 1
                            /\ \A r \in added : statusRec(r)
            /\ ~sc /\ pc => /\ Cardinality(added) = 1
                            /\ \A r \in added : priorityRec(r)]_vars

\* the last call was an update that logged a status and a priority change
C8_Witness ==
    /\ last.op = "tasks.update" /\ last.res = "ok"
    /\ \E r1, r2 \in db.taskActivity :
           /\ r1._id = db.nextId["taskActivity"] - 2
           /\ r2._id = db.nextId["taskActivity"] - 1
           /\ r1.taskId = last.args.id /\ r2.taskId = last.args.id
           /\ r1.action = "status_changed"
           /\ r2.action = "priority_changed"

-----------------------------------------------------------------------------
(* Label properties (SpecLabels).                                          *)

Associated(d, taskId, labelId) ==
    \E tl \in d.taskLabels : tl.taskId = taskId /\ tl.labelId = labelId

\* C9: with endpoint calls executed one at a time, the taskLabels table
\* never holds two rows with the same (taskId, labelId); labels.addToTask
\* for a pair that is already associated fails (with InvalidArgument, for
\* the owner with a token left) and inserts nothing; after
\* labels.removeFromTask(taskId, labelId) the pair is not associated.
C9_NoDuplicateAssociation ==
    /\ [](\A x, y \in db.taskLabels :
            x.taskId = y.taskId /\ x.labelId = y.labelId => x = y)
    /\ [][CallStep =>
            /\ /\ last'.op = "labels.addToTask"
               /\ Associated(db, last'.args.taskId, last'.args.labelId)
               => /\ last'.res # "ok"
                  /\ db' = db
                  /\ ExpectedError(db, buckets, now, last'.op, last'.caller,
                                   last'.args) = "InvalidArgument"
                       => last'.res = "InvalidArgument"
            /\ /\ last'.op = "labels.removeFromTask"
               /\ last'.res = "ok"
               => ~Associated(db', last'.args.taskId, last'.args.labelId)
       ]_vars

\* a second addToTask of an associated pair by its owner was refused
C9_Witness ==
    /\ last.op = "labels.addToTask"
    /\ last.res = "InvalidArgument"
    /\ Associated(db, last.args.taskId, last.args.labelId)
    /\ \E t \in db.tasks : t._id = last.args.taskId /\ t.userId = last.caller

-----------------------------------------------------------------------------
(* Payload properties (SpecFields).                                        *)

\* tasks.create by an authenticated caller whose bucket holds a token
CreateAdmitted ==
    /\ CallStep
    /\ last'.op = "tasks.create"
    /\ last'.caller \in Users
    /\ ~BucketEmpty(buckets, "tasks.create", last'.caller, now)

TitleLengthsStored ==
    \A t \in db.tasks : StrLen(t.title) \in 1..MAX_TASK_TITLE_LENGTH

\* C11 (as stated): tasks.create fails with InvalidArgument and stores
\* nothing when the supplied title is empty or has 201 or more characters,
\* and succeeds when it has exactly 1 or exactly 200 characters; no stored
\* task has a title length outside 1..200.
C11_TitleLengthAsSupplied ==
    /\ []TitleLengthsStored
    /\ [][CreateAdmitted =>
            LET n == StrLen(last'.args.title)
            IN /\ n = 0 \/ n > MAX_TASK_TITLE_LENGTH
                    => last'.res = "InvalidArgument" /\ db' = db
               /\ n \in {1, MAX_TASK_TITLE_LENGTH} => last'.res = "ok"]_vars

\* C11 (amended): the bounds apply to the title with leading and trailing
\* blanks removed: tasks.create fails with InvalidArgument and stores
\* nothing when the trimmed title is empty or has 201 or more characters,
\* succeeds when it has exactly 1 or exactly 200 characters and stores the
\* trimmed title; no stored task has a title length outside 1..200.
C11_TitleLengthTrimmed ==
    /\ []TitleLengthsStored
    /\ [][CreateAdmitted =>
            LET n == StrLen(Trim(last'.args.title))
            IN /\ n = 0 \/ n > MAX_TASK_TITLE_LENGTH
                    => last'.res = "InvalidArgument" /\ db' = db
               /\ n \in {1, MAX_TASK_TITLE_LENGTH} =>
                    /\ last'.res = "ok"
                    /\ \E t \in db'.tasks \ db.tasks :
                           t.title = Trim(last'.args.title)]_vars

\* a title of 201 characters was accepted and stored with 200
C11_Witness ==
    /\ last.op = "tasks.create"
    /\ last.res = "ok"
    /\ StrLen(last.args.title) = MAX_TASK_TITLE_LENGTH + 1
    /\ \E t \in db.tasks :
           t._id = last.ret /\ StrLen(t.title) = MAX_TASK_TITLE_LENGTH

\* C12: tasks.create and tasks.update refuse a due date that is not
\* strictly later than the current time: the call fails (with
\* InvalidArgument when no earlier step fails) and writes nothing, so no
\* call stores a due date that is already past.
C12_DueDateInFuture ==
    [][CallStep /\ last'.op \in {"tasks.create", "tasks.update"}
         /\ last'.args.dueDate # None =>
         /\ last'.args.dueDate[1] <= now =>
              /\ last'.res # "ok"
              /\ db' = db
              /\ ExpectedError(db, buckets, now, last'.op, last'.caller,
                               last'.args) \in {"none", "InvalidArgument"}
                   => last'.res = "InvalidArgument"
         /\ \A t \in db'.tasks \ db.tasks :
                t.dueDate # None => t.dueDate[1] > now]_vars

-----------------------------------------------------------------------------
(* Rate bound (SpecMinute).                                                *)

-----------------------------------------------------------------------------
(* Creation order (SpecTasks) and dashboard reads (SpecBoard).             *)

\* C14: a successful tasks.create stores exactly one new task, with userId
\* = caller, status todo, no completedAt and order = 1 + the maximum order
\* among the caller's todo tasks existing before the call (1 when there is
\* none), hence greater than the order of each of them; it appends exactly
\* one activity record, 'created', for the new task.
C14_CreateAppendsLast ==
    [][CallStep /\ last'.op = "tasks.create" /\ last'.res = "ok" =>
         LET c == last'.caller
             todo == {t \in db.tasks : t.userId = c /\ t.status = "todo"}
             newTasks == db'.tasks \ db.tasks
             newLog == db'.taskActivity \ db.taskActivity
         IN /\ db.tasks \subseteq db'.tasks
            /\ db.taskActivity \subseteq db'.taskActivity
            /\ Cardinality(newTasks) = 1
            /\ Cardinality(newLog) = 1
            /\ \A n \in newTasks :
                 /\ n._id = last'.ret
                 /\ n.userId = c
                 /\ n.status = "todo"
                 /\ n.completedAt = None
                 /\ todo = {} => n.order = 1
                 /\ \A t \in todo : n.order > t.order
                 /\ todo # {} => \E t \in todo : n.order = t.order + 1
                 /\ \A r \in newLog :
                      /\ r.action = "created"
                      /\ r.taskId = n._id
                      /\ r.userId = c]_vars

\* a task was created behind a todo task that had been moved to order 2
C14_Witness ==
    /\ last.op = "tasks.create"
    /\ last.res = "ok"
    /\ \E t, n \in db.tasks :
           /\ n._id = last.ret /\ n.order = 3
           /\ t.userId = n.userId /\ t.status = "todo" /\ t.order = 2

CountOf(u, st) == Cardinality({t \in db.tasks : t.userId = u /\ t.status = st})

\* C15: dashboard.summary returns, for the caller only, the number of the
\* caller's tasks in each status, a total equal to their sum and to the
\* number of the caller's tasks, and the number of the caller's labels,
\* whatever other users hold.
C15_SummaryCountsCallerOnly ==
    \A u \in Users :
        LET r == DashboardSummary(u)
        IN /\ r.res = "ok"
           /\ r.value.tasks.todo = CountOf(u, "todo")
           /\ r.value.tasks.inProgress = CountOf(u, "in_progress")
           /\ r.value.tasks.completed = CountOf(u, "completed")
           /\ r.value.tasks.total = r.value.tasks.todo
                                    + r.value.tasks.inProgress
                                    + r.value.tasks.completed
           /\ r.value.tasks.total
                = Cardinality({t \in db.tasks : t.userId = u})
           /\ r.value.labels = Cardinality({l \in db.labels : l.userId = u})

\* u1 holds 2 todo, 1 in_progress and 1 completed task and no label, while
\* u2 holds a label
C15_Witness ==
    /\ DashboardSummary("u1").value
         = [tasks |-> [todo |-> 2, inProgress |-> 1, completed |-> 1,
                       total |-> 4],
            labels |-> 0]
    /\ DashboardSummary("u2").value.labels = 1

-----------------------------------------------------------------------------
(* Preferences (SpecPrefs), recent activity (SpecLog), threads             *)
(* (SpecThreads), the activity log (Spec) and the order of writes          *)
(* (SpecTasks).                                                            *)

\* what preferences.get shows the user: the row's fields, or the defaults
Shown(d, u) ==
    LET rows == {r \in d.userPreferences : r.userId = u}
    IN IF rows = {} THEN DefaultPreferences
       ELSE [f \in PrefFields |-> (CHOOSE r \in rows : TRUE)[f]]

\* C16: after a successful preferences.update, preferences.get by the same
\* user returns the supplied value for each supplied field and, for every
\* other field, the value it had before the update, or the default if the
\* user had no preferences row.
C16_PreferencesRoundTrip ==
    /\ [](\A u \in Users :
            Cardinality({r \in db.userPreferences : r.userId = u}) <= 1)
    /\ [][\A c \in Users :
            /\ CallStep
            /\ last'.op = "preferences.update"
            /\ last'.res = "ok"
            /\ last'.caller = c
            => /\ PreferencesGet(c)'.res = "ok"
               /\ PreferencesGet(c)'.value # {}
               /\ \A row \in PreferencesGet(c)'.value : \A f \in PrefFields :
                      row[f] = IF last'.args[f] # None THEN last'.args[f][1]
                               ELSE Shown(db, c)[f]]_vars

\* an update that supplied only showCompleted kept the theme set earlier
C16_Witness ==
    /\ last.op = "preferences.update"
    /\ last.res = "ok"
    /\ last.args.theme = None
    /\ last.args.showCompleted = Some(FALSE)
    /\ \E row \in PreferencesGet(last.caller).value :
           /\ row.theme = "dark"
           /\ row.showCompleted = FALSE
           /\ row.sortBy = "created"

\* C17: dashboard.recentActivity returns only the caller's activity
\* records, newest first by creation time, and the most recent N of them
\* with N = 20 (all of them when the caller has fewer than N).
C17_RecentActivityTwenty ==
    \A u \in Users :
        LET v == DashboardRecentActivity(u).value
            mine == {r \in db.taskActivity : r.userId = u}
        IN /\ Range(v) \subseteq mine
           /\ Cardinality(Range(v)) = Len(v)
           /\ Len(v) = Min(DEFAULT_ACTIVITY_LIMIT, Cardinality(mine))
           /\ \A i, j \in 1..Len(v) : i < j => v[i].createdAt >= v[j].createdAt
           /\ \A x \in Range(v) : \A r \in mine \ Range(v) :
                  x.createdAt >= r.createdAt

\* C18: a successful ai.deleteThread deletes every message of the thread
\* before the thread row; afterwards neither the thread nor a message with
\* its threadId exists, the other threads and their messages are unchanged,
\* and after no write of the call is the thread row gone while one of its
\* messages exists.
C18_MessagesBeforeThread ==
    [][CallStep /\ last'.op = "ai.deleteThread" /\ last'.res = "ok" =>
         LET id == last'.args.threadId
             w == AiDeleteThreadWrites(last'.args)
         IN /\ Final(w) = db'
            /\ \A i \in 1..Len(w) :
                   getThreadById(w[i], id) = {} =>
                       \A m \in w[i].messages : m.threadId # id
            /\ getThreadById(db', id) = {}
            /\ \A m \in db'.messages : m.threadId # id
            /\ db'.threads = {t \in db.threads : t._id # id}
            /\ db'.messages = {m \in db.messages : m.threadId # id}]_vars

\* a thread with a message was deleted while another thread keeps its message
C18_Witness ==
    /\ last.op = "ai.deleteThread"
    /\ last.res = "ok"
    /\ db.nextId["messages"] = 3
    /\ Cardinality(db.messages) = 1
    /\ \E t \in db.threads : \E m \in db.messages : m.threadId = t._id

\* C19: the activity log is append-only across the endpoint layer: no
\* endpoint call modifies or deletes an activity record, tasks.remove of
\* the task it references included.
C19_ActivityAppendOnly ==
    [][db.taskActivity \subseteq db'.taskActivity]_vars

\* a task was removed and its activity records are still there
C19_Witness ==
    /\ last.op = "tasks.remove"
    /\ last.res = "ok"
    /\ \E r \in db.taskActivity :
           r.taskId = last.args.id /\ r.action = "created"

\* the writes of a successful logging task mutation, db before them first
LoggedWrites ==
    LET a == last'.args
        c == last'.caller
    IN <<db>> \o
       (CASE last'.op = "tasks.create" ->
                 TasksCreateWrites(c, a, sanitizeString(a.title))
          [] last'.op = "tasks.update" ->
                 TasksUpdateWrites(c, a, TheRow(getTaskById(db, a.id)))
          [] last'.op = "tasks.remove" ->
                 TasksRemoveWrites(c, a, TheRow(getTaskById(db, a.id))))

LoggingStep ==
    /\ CallStep
    /\ last'.op \in {"tasks.create", "tasks.update", "tasks.remove"}
    /\ last'.res = "ok"

\* the activity records the i-th write appends
Appended(w, i) == w[i + 1].taskActivity \ w[i].taskActivity

-----------------------------------------------------------------------------
(* Update records and reorder (SpecTasks), preference rows (SpecPrefs).    *)

\* C22: every successful tasks.update appends at least one activity record
\* for the task, whichever fields it supplies, a status or priority equal
\* to the current one included.
C22_UpdateAlwaysLogged ==
    [][CallStep /\ last'.op = "tasks.update" /\ last'.res = "ok" =>
         \E r \in db'.taskActivity \ db.taskActivity :
             r.taskId = last'.args.id]_vars

\* C23: a successful tasks.reorder(id, newOrder) sets order and updatedAt
\* of the named task and changes nothing else: no other task, no other
\* field of the task, no table other than tasks (no activity record); the
\* owner's call is accepted whatever newOrder is, the order of another task
\* of the same user and status included.
C23_ReorderSetsOrderOnly ==
    [][CallStep /\ last'.op = "tasks.reorder" =>
         /\ last'.res = "ok" =>
              /\ db'.tasks =
                    {IF t._id = last'.args.id
                     THEN [t EXCEPT !.order = last'.args.newOrder,
                                    !.updatedAt = now]
                     ELSE t : t \in db.tasks}
              /\ \A tb \in TableNames \ {"tasks"} : db'[tb] = db[tb]
              /\ db'.nextId = db.nextId
         /\ (/\ last'.caller \in Users
             /\ ~BucketEmpty(buckets, "tasks.reorder", last'.caller, now)
             /\ \E t \in db.tasks :
                    t._id = last'.args.id /\ t.userId = last'.caller)
              => last'.res = "ok"]_vars

\* a task was given the order another todo task of the same user has
C23_Witness ==
    /\ last.op = "tasks.reorder"
    /\ last.res = "ok"
    /\ \E t, o \in db.tasks :
           /\ t._id = last.args.id
           /\ o._id # t._id
           /\ o.userId = t.userId
           /\ o.status = t.status
           /\ o.order = t.order

-----------------------------------------------------------------------------
(* Messages (SpecThreads).                                                 *)

\* C27: a successful ai.sendMessage appends exactly one message to the
\* named thread, with role user, userId = caller and the trimmed content,
\* and writes nothing else; every stored message has role user, no call
\* modifies a stored message, and messages disappear only with their whole
\* thread, by ai.deleteThread.
C27_UserMessagesOnly ==
    /\ [](\A m \in db.messages : m.role = "user")
    /\ [][CallStep =>
            /\ last'.op = "ai.sendMessage" /\ last'.res = "ok" =>
                 /\ db.messages \subseteq db'.messages
                 /\ db'.messages \ db.messages =
                       {[_id |-> last'.ret, threadId |-> last'.args.threadId,
                         userId |-> last'.caller, role |-> "user",
                         content |-> Trim(last'.args.content),
                         createdAt |-> now]}
                 /\ \A tb \in TableNames \ {"messages"} : db'[tb] = db[tb]
            /\ ~(last'.op = "ai.sendMessage" /\ last'.res = "ok") =>
                 /\ db'.messages \subseteq db.messages
                 /\ db.messages \ db'.messages # {} =>
                      /\ last'.op = "ai.deleteThread"
                      /\ db.messages \ db'.messages =
                            {m \in db.messages :
                                m.threadId = last'.args.threadId}]_vars

\* a padded message was appended, trimmed, behind an earlier message of
\* the same thread
C27_Witness ==
    /\ last.op = "ai.sendMessage"
    /\ last.res = "ok"
    /\ last.args.content = PaddedA
    /\ \E m, e \in db.messages :
           /\ m._id = last.ret
           /\ m.content = TitleA
           /\ e._id < m._id
           /\ e.threadId = m.threadId

-----------------------------------------------------------------------------
(* Dependent rows (SpecRefs).                                              *)

\* C28: with endpoint calls executed one at a time, no task-label
\* association references a task or a label that does not exist and no
\* comment references a task that does not exist: labels.remove deletes
\* the label's associations and tasks.remove the task's associations and
\* comments, together with the parent row.
C28_NoDanglingReference ==
    /\ \A tl \in db.taskLabels :
           /\ getTaskById(db, tl.taskId) # {}
           /\ getLabelById(db, tl.labelId) # {}
    /\ \A c \in db.taskComments : getTaskById(db, c.taskId) # {}

\* a label that was on a task has been removed, and the task is still there
C28_Witness ==
    /\ last.op = "labels.remove"
    /\ last.res = "ok"
    /\ db.nextId["taskLabels"] = 2
    /\ db.taskLabels = {}
    /\ db.tasks # {}

\* C29: each dependent row has the owner of the rows it references: an
\* association that of its task and of its label, a comment that of its
\* task, a message that of its thread, an activity record that of the task
\* it was logged for.
C29_SameOwner ==
    /\ [](/\ \A tl \in db.taskLabels :
                /\ \A t \in getTaskById(db, tl.taskId) : t.userId = tl.userId
                /\ \A l \in getLabelById(db, tl.labelId) : l.userId = tl.userId
          /\ \A c \in db.taskComments :
                \A t \in getTaskById(db, c.taskId) : t.userId = c.userId
          /\ \A m \in db.messages :
                \A t \in getThreadById(db, m.threadId) : t.userId = m.userId
          /\ \A r \in db.taskActivity :
                \A t \in getTaskById(db, r.taskId) : t.userId = r.userId)
    /\ [][\A r \in db'.taskActivity \ db.taskActivity :
              \E t \in db.tasks \cup db'.tasks :
                  t._id = r.taskId /\ t.userId = r.userId]_vars

\* a user was refused another user's label for a task of their own, and
\* that task carries a label of its owner
C29_Witness ==
    /\ last.op = "labels.addToTask"
    /\ last.res = "Forbidden"
    /\ \E t \in getTaskById(db, last.args.taskId) :
           /\ t.userId = last.caller
           /\ \E tl \in db.taskLabels : tl.taskId = t._id
    /\ \E l \in getLabelById(db, last.args.labelId) : l.userId # last.caller

-----------------------------------------------------------------------------
(* Buckets (SpecBurst).                                                    *)

-----------------------------------------------------------------------------
(* Recent tasks (SpecRecent).                                              *)

\* C25: dashboard.recent returns at most 10 tasks, all owned by the caller,
\* sorted by updatedAt descending; no task of the caller that is left out
\* has a larger updatedAt than a task that is returned; with 10 or fewer
\* tasks it returns all of them.
C25_RecentTasks ==
    \A u \in Users :
        LET v == DashboardRecent(u).value
            mine == {t \in db.tasks : t.userId = u}
        IN /\ DashboardRecent(u).res = "ok"
           /\ Len(v) <= 10
           /\ Range(v) \subseteq mine
           /\ Cardinality(Range(v)) = Len(v)
           /\ \A i, j \in 1..Len(v) : i < j => v[i].updatedAt >= v[j].updatedAt
           /\ \A x \in Range(v) : \A t \in mine \ Range(v) :
                  t.updatedAt <= x.updatedAt
           /\ Cardinality(mine) <= 10 => Range(v) = mine

\* the caller has eleven tasks and has just read the recent ones: the
\* oldest task, updated last, comes first and the second oldest is left out
C25_Witness ==
    /\ last.op = "dashboard.recent"
    /\ last.res = "ok"
    /\ Cardinality({t \in db.tasks : t.userId = last.caller}) = 11
    /\ DashboardRecent(last.caller).value[1]._id = 1
    /\ \A i \in 1..Len(DashboardRecent(last.caller).value) :
           DashboardRecent(last.caller).value[i]._id # 2

-----------------------------------------------------------------------------
(* Reads (SpecReads).                                                      *)

-----------------------------------------------------------------------------
(* Overlapping calls (SpecRace).                                           *)

\* the association rows of a (task, label) pair
PairRows(d, a) ==
    {r \in d.taskLabels : r.taskId = a.taskId /\ r.labelId = a.labelId}

\* C21: when the existence check and the insert of labels.addToTask are
\* not atomic with respect to another call, a call that has passed the
\* check inserts its row and succeeds whatever has been inserted since: two
\* calls by the same user for the same (taskId, labelId) that both run the
\* check before either inserts both succeed and leave two rows for the
\* pair.
C21_RaceDuplicates ==
    [][\A p \in pending \ pending' :
          /\ last'.res = "ok"
          /\ Cardinality(PairRows(db', p.args))
                = Cardinality(PairRows(db, p.args)) + 1
          /\ pending' = pending \ {p}]_vars

\* both calls have returned ok and the pair has two association rows
C21_Witness ==
    /\ pending = {}
    /\ last.op = "labels.addToTask"
    /\ last.res = "ok"
    /\ Cardinality(PairRows(db, last.args)) = 2
    /\ \A r \in PairRows(db, last.args) : r.userId = last.caller

=============================================================================
